---- MODULE Spec2Model ----
(***************************************************************************)
(* Model of the QA dilation engines of the e-l-t repository:               *)
(*   dilate_class_value  (src/class_based_qa/class_dilation.c)             *)
(*   dilate_pixel_qa     (src/pixel_qa/pixel_qa_dilation.c)                *)
(* and of the dilation tools that read a band, dilate it and write the     *)
(* result back to the same band file (src/tools/dilate_*.c).               *)
(*                                                                         *)
(* Rasters are flat row-major arrays indexed 0 .. nrows*ncols-1, exactly   *)
(* as the C code indexes them (row * ncols + col).  The loops of the C     *)
(* functions are RECURSIVE operators that follow the loop bodies           *)
(* statement by statement, including the short-circuit of the window scan. *)
(* The loop over rows is modelled in source order (the build without       *)
(* _OPENMP, or one thread).                                                *)
(***************************************************************************)
EXTENDS Integers, Sequences, FiniteSets, TLC

(***************************************************************************)
(* Bounds of the model.                                                    *)
(***************************************************************************)
\* largest band, in pixels (nlines * nsamps)
MaxPixels == 6
\* largest --distance
MaxDist == 1
\* most pixels in which a band differs from a uniform band
MaxMarks == 2
\* most runs of a tool on the same band
MaxPasses == 2

(***************************************************************************)
(* Program constants.                                                      *)
(***************************************************************************)
\* class based QA values, qa_class_values.h (the header reuses the L2QA_
\* names of pixel_qa.h with other values, hence the CLASS_ prefix here)
CLASS_L2QA_CLEAR == 0
CLASS_L2QA_CLD_SHADOW == 2
CLASS_L2QA_CLOUD == 4
CLASS_L2QA_FILL == 255

\* pixel QA bit numbers, pixel_qa.h
L2QA_FILL == 0
L2QA_CLEAR == 1
L2QA_CLD_SHADOW == 3
L2QA_CLOUD == 5
L2QA_SINGLE_BIT == 1

\* number of bits of a pixel QA value (uint16_t)
QA_BITS == 16

(***************************************************************************)
(* Bit arithmetic on unsigned values of QA_BITS bits.                      *)
(***************************************************************************)
Pow2(n) == 2 ^ n

\* x >> n
ShiftRight(x, n) == x \div Pow2(n)

RECURSIVE BitAndN(_, _, _)
BitAndN(x, y, n) ==
    IF n = 0 \/ x = 0 \/ y = 0 THEN 0
    ELSE (x % 2) * (y % 2) + 2 * BitAndN(x \div 2, y \div 2, n - 1)

\* x & y
BitAnd(x, y) == BitAndN(x, y, QA_BITS)

RECURSIVE BitOrN(_, _, _)
BitOrN(x, y, n) ==
    IF n = 0 THEN 0
    ELSE IF x = 0 THEN y % Pow2(n)
    ELSE IF y = 0 THEN x % Pow2(n)
    ELSE (IF x % 2 = 1 \/ y % 2 = 1 THEN 1 ELSE 0)
         + 2 * BitOrN(x \div 2, y \div 2, n - 1)

\* x | y
BitOr(x, y) == BitOrN(x, y, QA_BITS)

\* ~x, the low QA_BITS bits of it (all that a uint16_t store keeps)
BitNot(x) == (Pow2(QA_BITS) - 1) - x

\* TRUE iff bit b of x is set
HasBit(x, b) == ShiftRight(x, b) % 2 = 1

(***************************************************************************)
(* dilate_class_value, class_dilation.c                                    *)
(***************************************************************************)

\* Variant of ClassWindowCols without the column bounds test of lines 98-99:
\* a window column outside the row reads the neighbouring row.
RECURSIVE ClassWindowCols_NoColumnCheck(_, _, _, _, _, _)
ClassWindowCols_NoColumnCheck(input_data, search_value, ncols, window_row_index, window_col, end_col) ==
    IF ~(window_col < end_col + 1) THEN FALSE
    ELSE LET input_index == window_row_index + window_col IN
         IF input_index \in DOMAIN input_data /\ input_data[input_index] = search_value
         THEN TRUE
         ELSE ClassWindowCols_NoColumnCheck(input_data, search_value, ncols, window_row_index, window_col + 1, end_col)

\* Variant of ClassWindowCols that leaves the loop at the first cell inside
\* the raster, whether it matches or not.
ClassWindowCols_StopsAtFirstCell(input_data, search_value, ncols, window_row_index, window_col, end_col) ==
    LET inside == {c \in window_col .. end_col : ~(c < 0 \/ c > (ncols - 1))} IN
    IF inside = {} THEN FALSE
    ELSE input_data[window_row_index + (CHOOSE c \in inside : \A e \in inside : c <= e)] = search_value

\* The inner window loop (lines 93-108): TRUE iff it leaves with found set.
RECURSIVE ClassWindowCols(_, _, _, _, _, _)
ClassWindowCols(input_data, search_value, ncols, window_row_index, window_col, end_col) ==
    IF ~(window_col < end_col + 1) THEN FALSE
    ELSE IF window_col < 0 \/ window_col > (ncols - 1)
    THEN ClassWindowCols(input_data, search_value, ncols, window_row_index,
                         window_col + 1, end_col)
    ELSE LET input_index == window_row_index + window_col IN
         IF input_data[input_index] = search_value
         THEN TRUE
         ELSE ClassWindowCols(input_data, search_value, ncols,
                              window_row_index, window_col + 1, end_col)

\* Variant of ClassWindowRows whose loop runs one row too far
\* (window_row < end_row + 2).
RECURSIVE ClassWindowRows_OffByOne(_, _, _, _, _, _, _, _)
ClassWindowRows_OffByOne(input_data, search_value, nrows, ncols, window_row, end_row, start_col, end_col) ==
    IF ~(window_row < end_row + 2) THEN FALSE
    ELSE IF window_row < 0 \/ window_row > (nrows - 1)
    THEN ClassWindowRows_OffByOne(input_data, search_value, nrows, ncols, window_row + 1, end_row, start_col, end_col)
    ELSE LET window_row_index == window_row * ncols IN
         IF ClassWindowCols(input_data, search_value, ncols, window_row_index, start_col, end_col)
         THEN TRUE
         ELSE ClassWindowRows_OffByOne(input_data, search_value, nrows, ncols, window_row + 1, end_row, start_col, end_col)

\* Variant of ClassWindowRows that leaves the loop at the first row outside
\* the raster (break where the code has continue).
RECURSIVE ClassWindowRows_BreakOutside(_, _, _, _, _, _, _, _)
ClassWindowRows_BreakOutside(input_data, search_value, nrows, ncols, window_row, end_row, start_col, end_col) ==
    IF ~(window_row < end_row + 1) THEN FALSE
    ELSE IF window_row < 0 \/ window_row > (nrows - 1)
    THEN FALSE
    ELSE LET window_row_index == window_row * ncols IN
         IF ClassWindowCols(input_data, search_value, ncols, window_row_index, start_col, end_col)
         THEN TRUE
         ELSE ClassWindowRows_BreakOutside(input_data, search_value, nrows, ncols, window_row + 1, end_row, start_col, end_col)

\* Variant of ClassWindowRows whose loop test is window_row < end_row: the
\* last row of the window is not scanned.
RECURSIVE ClassWindowRows_ExcludesEndRow(_, _, _, _, _, _, _, _)
ClassWindowRows_ExcludesEndRow(input_data, search_value, nrows, ncols, window_row, end_row, start_col, end_col) ==
    IF ~(window_row < end_row) THEN FALSE
    ELSE IF window_row < 0 \/ window_row > (nrows - 1)
    THEN ClassWindowRows_ExcludesEndRow(input_data, search_value, nrows, ncols, window_row + 1, end_row, start_col, end_col)
    ELSE LET window_row_index == window_row * ncols IN
         IF ClassWindowCols(input_data, search_value, ncols, window_row_index, start_col, end_col)
         THEN TRUE
         ELSE ClassWindowRows_ExcludesEndRow(input_data, search_value, nrows, ncols, window_row + 1, end_row, start_col, end_col)

\* The outer window loop (lines 82-109), entered with found = false; the
\* loop condition "&& !found" ends it as soon as a row reports a match.
RECURSIVE ClassWindowRows(_, _, _, _, _, _, _, _)
ClassWindowRows(input_data, search_value, nrows, ncols, window_row, end_row, start_col, end_col) ==
    IF ~(window_row < end_row + 1) THEN FALSE
    ELSE IF window_row < 0 \/ window_row > (nrows - 1)
    THEN ClassWindowRows(input_data, search_value, nrows, ncols,
                         window_row + 1, end_row, start_col, end_col)
    ELSE LET window_row_index == window_row * ncols IN
         IF ClassWindowCols(input_data, search_value, ncols,
                            window_row_index, start_col, end_col)
         THEN TRUE
         ELSE ClassWindowRows(input_data, search_value, nrows, ncols,
                              window_row + 1, end_row, start_col, end_col)

\* Variant of ClassPixel whose quick check leaves the loop iteration without
\* storing the pixel: the output keeps the 0 of the zeroed buffer.
ClassPixel_QuickCheckNoStore(input_data, search_value, distance, nrows, ncols, row, col) ==
    LET output_index == row * ncols + col IN
    IF input_data[output_index] = CLASS_L2QA_FILL
    THEN CLASS_L2QA_FILL
    ELSE IF input_data[output_index] = search_value
    THEN 0
    ELSE IF ClassWindowRows(input_data, search_value, nrows, ncols, row - distance, row + distance, col - distance, col + distance)
    THEN search_value
    ELSE input_data[output_index]

\* Body of the column loop (lines 61-114): the value stored in
\* output_data[row * ncols + col].
ClassPixel(input_data, search_value, distance, nrows, ncols, row, col) ==
    LET start_row == row - distance
        end_row == row + distance
        row_index == row * ncols
        output_index == row_index + col
        start_col == col - distance
        end_col == col + distance
    IN  IF input_data[output_index] = CLASS_L2QA_FILL
        THEN CLASS_L2QA_FILL
        ELSE IF input_data[output_index] = search_value
        THEN search_value
        ELSE IF ClassWindowRows(input_data, search_value, nrows, ncols,
                                start_row, end_row, start_col, end_col)
        THEN search_value
        ELSE input_data[output_index]

\* for (col = 0; col < ncols; col++), lines 59-115
RECURSIVE ClassColLoop(_, _, _, _, _, _, _, _)
ClassColLoop(input_data, search_value, distance, nrows, ncols, output_data, row, col) ==
    IF ~(col < ncols) THEN output_data
    ELSE ClassColLoop(input_data, search_value, distance, nrows, ncols,
             [output_data EXCEPT ![row * ncols + col] =
                 ClassPixel(input_data, search_value, distance, nrows, ncols,
                            row, col)],
             row, col + 1)

\* for (row = 0; row < nrows; row++), lines 52-116
RECURSIVE ClassRowLoop(_, _, _, _, _, _, _)
ClassRowLoop(input_data, search_value, distance, nrows, ncols, output_data, row) ==
    IF ~(row < nrows) THEN output_data
    ELSE ClassRowLoop(input_data, search_value, distance, nrows, ncols,
             ClassColLoop(input_data, search_value, distance, nrows, ncols,
                          output_data, row, 0),
             row + 1)

\* The output buffer after the call.
dilate_class_value(input_data, search_value, distance, nrows, ncols, output_data) ==
    ClassRowLoop(input_data, search_value, distance, nrows, ncols,
                 output_data, 0)

(***************************************************************************)
(* dilate_pixel_qa, pixel_qa_dilation.c                                    *)
(***************************************************************************)

\* read_pixel_qa.h, pixel_qa_is_fill
pixel_qa_is_fill(l2_qa_pix) ==
    BitAnd(ShiftRight(l2_qa_pix, L2QA_FILL), L2QA_SINGLE_BIT) = 1

\* user_bit_mask = pow(2, search_bit), line 55
UserBitMask(search_bit) == Pow2(search_bit)

\* Variant of CleaningBitMask that turns off the cloud bit in place of the
\* clear bit.
CleaningBitMask_ClearsCloud(search_bit, indeterminate) ==
    LET all_ones == BitNot(BitAnd(indeterminate, 0)) IN
    IF search_bit = L2QA_CLOUD
    THEN BitAnd(BitAnd(all_ones, BitNot(Pow2(L2QA_CLOUD))), BitNot(Pow2(L2QA_CLD_SHADOW)))
    ELSE all_ones

\* Variant of CleaningBitMask that forgets the cloud shadow bit.
CleaningBitMask_KeepsShadow(search_bit, indeterminate) ==
    LET all_ones == BitNot(BitAnd(indeterminate, 0)) IN
    IF search_bit = L2QA_CLOUD
    THEN BitAnd(all_ones, BitNot(Pow2(L2QA_CLEAR)))
    ELSE all_ones

\* cleaning_bit_mask, lines 58-68.  Line 58 reads the variable before it was
\* ever assigned: indeterminate is the value it may hold at that point.
CleaningBitMask(search_bit, indeterminate) ==
    LET all_ones == BitNot(BitAnd(indeterminate, 0)) IN
    IF search_bit = L2QA_CLOUD
    THEN BitAnd(BitAnd(all_ones, BitNot(Pow2(L2QA_CLEAR))),
                BitNot(Pow2(L2QA_CLD_SHADOW)))
    ELSE all_ones

\* Variant of QaWindowCols without the column bounds test of lines 112-113:
\* a window column outside the row reads the neighbouring row.
RECURSIVE QaWindowCols_NoColumnCheck(_, _, _, _, _, _)
QaWindowCols_NoColumnCheck(input_data, search_bit, ncols, window_row_index, window_col, end_col) ==
    IF ~(window_col < end_col + 1) THEN FALSE
    ELSE LET input_index == window_row_index + window_col IN
         IF input_index \in DOMAIN input_data /\ BitAnd(ShiftRight(input_data[input_index], search_bit), L2QA_SINGLE_BIT) # 0
         THEN TRUE
         ELSE QaWindowCols_NoColumnCheck(input_data, search_bit, ncols, window_row_index, window_col + 1, end_col)

\* The inner window loop (lines 107-124): TRUE iff it leaves with found set.
RECURSIVE QaWindowCols(_, _, _, _, _, _)
QaWindowCols(input_data, search_bit, ncols, window_row_index, window_col, end_col) ==
    IF ~(window_col < end_col + 1) THEN FALSE
    ELSE IF window_col < 0 \/ window_col > (ncols - 1)
    THEN QaWindowCols(input_data, search_bit, ncols, window_row_index,
                      window_col + 1, end_col)
    ELSE LET input_index == window_row_index + window_col
             input_val == ShiftRight(input_data[input_index], search_bit)
         IN  IF BitAnd(input_val, L2QA_SINGLE_BIT) # 0
             THEN TRUE
             ELSE QaWindowCols(input_data, search_bit, ncols,
                               window_row_index, window_col + 1, end_col)

\* Variant of QaWindowRows whose loop runs one row too far
\* (window_row < end_row + 2).
RECURSIVE QaWindowRows_OffByOne(_, _, _, _, _, _, _, _)
QaWindowRows_OffByOne(input_data, search_bit, nrows, ncols, window_row, end_row, start_col, end_col) ==
    IF ~(window_row < end_row + 2) THEN FALSE
    ELSE IF window_row < 0 \/ window_row > (nrows - 1)
    THEN QaWindowRows_OffByOne(input_data, search_bit, nrows, ncols, window_row + 1, end_row, start_col, end_col)
    ELSE LET window_row_index == window_row * ncols IN
         IF QaWindowCols(input_data, search_bit, ncols, window_row_index, start_col, end_col)
         THEN TRUE
         ELSE QaWindowRows_OffByOne(input_data, search_bit, nrows, ncols, window_row + 1, end_row, start_col, end_col)

\* The outer window loop (lines 96-125), entered with found = false.
RECURSIVE QaWindowRows(_, _, _, _, _, _, _, _)
QaWindowRows(input_data, search_bit, nrows, ncols, window_row, end_row, start_col, end_col) ==
    IF ~(window_row < end_row + 1) THEN FALSE
    ELSE IF window_row < 0 \/ window_row > (nrows - 1)
    THEN QaWindowRows(input_data, search_bit, nrows, ncols, window_row + 1,
                      end_row, start_col, end_col)
    ELSE LET window_row_index == window_row * ncols IN
         IF QaWindowCols(input_data, search_bit, ncols, window_row_index,
                         start_col, end_col)
         THEN TRUE
         ELSE QaWindowRows(input_data, search_bit, nrows, ncols,
                           window_row + 1, end_row, start_col, end_col)

\* Variant of QaFoundValue that stores the mask in place of or-ing it into
\* the input pixel.
QaFoundValue_StoresMask(input_pix, user_bit_mask, cleaning_bit_mask) ==
    BitAnd(user_bit_mask, cleaning_bit_mask)

\* Variant of QaFoundValue that leaves a pixel that already has the bit as
\* it is.
QaFoundValue_KeepsMarkedPixel(input_pix, user_bit_mask, cleaning_bit_mask) ==
    IF BitAnd(input_pix, user_bit_mask) # 0 THEN input_pix
    ELSE BitAnd(BitOr(input_pix, user_bit_mask), cleaning_bit_mask)

\* Lines 127-139: the value stored when the window scan ended with found.
QaFoundValue(input_pix, user_bit_mask, cleaning_bit_mask) ==
    BitAnd(BitOr(input_pix, user_bit_mask), cleaning_bit_mask)

\* Variant of QaPixel without the fill test of lines 85-89.
QaPixel_NoFillSkip(input_data, search_bit, distance, nrows, ncols, user_bit_mask, cleaning_bit_mask, row, col) ==
    LET output_index == row * ncols + col IN
    IF QaWindowRows(input_data, search_bit, nrows, ncols, row - distance, row + distance, col - distance, col + distance)
    THEN QaFoundValue(input_data[output_index], user_bit_mask, cleaning_bit_mask)
    ELSE input_data[output_index]

\* Body of the column loop (lines 82-139): the value stored in
\* output_data[row * ncols + col].
QaPixel(input_data, search_bit, distance, nrows, ncols, user_bit_mask, cleaning_bit_mask, row, col) ==
    LET start_row == row - distance
        end_row == row + distance
        row_index == row * ncols
        output_index == row_index + col
        start_col == col - distance
        end_col == col + distance
    IN  IF pixel_qa_is_fill(input_data[output_index])
        THEN input_data[output_index]
        ELSE IF QaWindowRows(input_data, search_bit, nrows, ncols,
                             start_row, end_row, start_col, end_col)
        THEN QaFoundValue(input_data[output_index], user_bit_mask,
                          cleaning_bit_mask)
        ELSE input_data[output_index]

\* for (col = 0; col < ncols; col++), lines 80-140
RECURSIVE QaColLoop(_, _, _, _, _, _, _, _, _, _)
QaColLoop(input_data, search_bit, distance, nrows, ncols, user_bit_mask, cleaning_bit_mask, output_data, row, col) ==
    IF ~(col < ncols) THEN output_data
    ELSE QaColLoop(input_data, search_bit, distance, nrows, ncols,
             user_bit_mask, cleaning_bit_mask,
             [output_data EXCEPT ![row * ncols + col] =
                 QaPixel(input_data, search_bit, distance, nrows, ncols,
                         user_bit_mask, cleaning_bit_mask, row, col)],
             row, col + 1)

\* for (row = 0; row < nrows; row++), lines 73-141
RECURSIVE QaRowLoop(_, _, _, _, _, _, _, _, _)
QaRowLoop(input_data, search_bit, distance, nrows, ncols, user_bit_mask, cleaning_bit_mask, output_data, row) ==
    IF ~(row < nrows) THEN output_data
    ELSE QaRowLoop(input_data, search_bit, distance, nrows, ncols,
             user_bit_mask, cleaning_bit_mask,
             QaColLoop(input_data, search_bit, distance, nrows, ncols,
                       user_bit_mask, cleaning_bit_mask, output_data, row, 0),
             row + 1)

\* The output buffer after the call.
dilate_pixel_qa(input_data, search_bit, distance, nrows, ncols, output_data, indeterminate) ==
    QaRowLoop(input_data, search_bit, distance, nrows, ncols,
              UserBitMask(search_bit),
              CleaningBitMask(search_bit, indeterminate), output_data, 0)

\* calloc(nlines * nsamps, ...)
Calloc(n) == [i \in 0 .. n - 1 |-> 0]

(***************************************************************************)
(* The Level-1 QA codec, level1_lib/read_level1_qa.h.  The masks are       *)
(* those of the 16-bit Level-1 quality band the accessors are probed with  *)
(* in tools/test_read_level1_qa.c: fill 1, terrain occlusion 2, cloud 16,  *)
(* and the two-bit confidences of cloud (32, 64), cloud shadow (128, 256), *)
(* snow/ice (512, 1024) and cirrus (2048, 4096).                           *)
(***************************************************************************)
IAS_QUALITY_BIT_FILL == 1
IAS_QUALITY_BIT_TERRAIN_OCCLUSION == 2
IAS_QUALITY_BIT_CLOUD == 16
IAS_QUALITY_BIT_CLOUD_11 == 96
IAS_QUALITY_BIT_CLOUD_SHADOW_11 == 384
IAS_QUALITY_BIT_SNOW_ICE_11 == 1536
IAS_QUALITY_BIT_CIRRUS_11 == 6144

\* conversion of an int to the uint8_t an accessor returns
ToUint8(x) == x % 256

level1_qa_is_fill(l1_qa_pix) == BitAnd(l1_qa_pix, IAS_QUALITY_BIT_FILL) # 0

level1_qa_is_terrain_occluded(l1_qa_pix) == BitAnd(l1_qa_pix, IAS_QUALITY_BIT_TERRAIN_OCCLUSION) # 0

level1_qa_is_cloud(l1_qa_pix) == BitAnd(l1_qa_pix, IAS_QUALITY_BIT_CLOUD) # 0

\* The loop of level1_qa_bit_number from i on: the number of the first set
\* bit, 0 when there is none.
RECURSIVE BitNumberLoop(_, _)
BitNumberLoop(l1_qa_pix, i) ==
    IF ~(i < 16) THEN 0
    ELSE IF BitAnd(l1_qa_pix, Pow2(i)) # 0 THEN i
    ELSE BitNumberLoop(l1_qa_pix, i + 1)

\* Variant of level1_qa_bit_number that counts bits from 1.
level1_qa_bit_number_FromOne(l1_qa_pix) == BitNumberLoop(l1_qa_pix, 0) + 1

level1_qa_bit_number(l1_qa_pix) == BitNumberLoop(l1_qa_pix, 0)

level1_qa_cloud_confidence(l1_qa_pix) == ToUint8(ShiftRight(BitAnd(l1_qa_pix, IAS_QUALITY_BIT_CLOUD_11), level1_qa_bit_number(IAS_QUALITY_BIT_CLOUD_11)))

level1_qa_cloud_shadow_confidence(l1_qa_pix) == ToUint8(ShiftRight(BitAnd(l1_qa_pix, IAS_QUALITY_BIT_CLOUD_SHADOW_11), level1_qa_bit_number(IAS_QUALITY_BIT_CLOUD_SHADOW_11)))

level1_qa_snow_ice_confidence(l1_qa_pix) == ToUint8(ShiftRight(BitAnd(l1_qa_pix, IAS_QUALITY_BIT_SNOW_ICE_11), level1_qa_bit_number(IAS_QUALITY_BIT_SNOW_ICE_11)))

level1_qa_cirrus_confidence(l1_qa_pix) == ToUint8(ShiftRight(BitAnd(l1_qa_pix, IAS_QUALITY_BIT_CIRRUS_11), level1_qa_bit_number(IAS_QUALITY_BIT_CIRRUS_11)))

(***************************************************************************)
(* The scalar class generator, level2_lib/generate_level2_qa.c.            *)
(***************************************************************************)
CLASS_L2QA_SNOW == 3

\* Variant of Level2QaPixel that tests snow/ice before cloud.
Level2QaPixel_SnowBeforeCloud(l1_qa_pix, l2_qa_pix) ==
    IF level1_qa_is_fill(l1_qa_pix) THEN CLASS_L2QA_FILL
    ELSE IF level1_qa_snow_ice_confidence(l1_qa_pix) = 3 THEN CLASS_L2QA_SNOW
    ELSE IF level1_qa_is_cloud(l1_qa_pix) THEN CLASS_L2QA_CLOUD
    ELSE IF level1_qa_cloud_shadow_confidence(l1_qa_pix) = 3 THEN CLASS_L2QA_CLD_SHADOW
    ELSE l2_qa_pix

\* The body of the loop (lines 146-153): the value of l2_qa[i] after it,
\* l2_qa_pix being its value before, which no branch assigns when none of
\* the tests holds.
Level2QaPixel(l1_qa_pix, l2_qa_pix) ==
    IF level1_qa_is_fill(l1_qa_pix) THEN CLASS_L2QA_FILL
    ELSE IF level1_qa_is_cloud(l1_qa_pix) THEN CLASS_L2QA_CLOUD
    ELSE IF level1_qa_snow_ice_confidence(l1_qa_pix) = 3 THEN CLASS_L2QA_SNOW
    ELSE IF level1_qa_cloud_shadow_confidence(l1_qa_pix) = 3 THEN CLASS_L2QA_CLD_SHADOW
    ELSE l2_qa_pix

\* The loop (lines 144-154) from pixel i on.
RECURSIVE Level2QaLoop(_, _, _, _)
Level2QaLoop(l1_qa, l2_qa, n, i) ==
    IF ~(i < n) THEN l2_qa
    ELSE Level2QaLoop(l1_qa, [l2_qa EXCEPT ![i] = Level2QaPixel(l1_qa[i], l2_qa[i])], n, i + 1)

\* The band handed to write_level2_qa: the calloc'ed l2_qa after the loop.
generate_level2_qa(l1_qa, n_lines, n_samps) == Level2QaLoop(l1_qa, Calloc(n_lines * n_samps), n_lines * n_samps, 0)

(***************************************************************************)
(* The bit-packed pixel QA generator, pixel_qa/generate_pixel_qa.c, and    *)
(* the accessors of pixel_qa/read_pixel_qa.h it is read back with.         *)
(***************************************************************************)
L2QA_SNOW == 4
L2QA_CLOUD_CONF1 == 6
L2QA_CLOUD_CONF2 == 7
L2QA_CIRRUS_CONF1 == 8
L2QA_CIRRUS_CONF2 == 9
L2QA_TERRAIN_OCCL == 10
L2QA_DOUBLE_BIT == 3
L2QA_LOW_CONF == 1
L2QA_MODERATE_CONF == 2
L2QA_HIGH_CONF == 3

\* l2_qa[i] |= (1 << bit)
SetBit(x, bit) == BitOr(x, Pow2(bit))
\* l2_qa[i] &= ~(1 << bit)
ClearBit(x, bit) == BitAnd(x, BitNot(Pow2(bit)))

\* Variant of PixelQaFill that sets the fill bit and leaves the clear bit.
PixelQaFill_KeepsClear(v) == SetBit(v, L2QA_FILL)

\* lines 152-153
PixelQaFill(v) == SetBit(ClearBit(v, L2QA_CLEAR), L2QA_FILL)

\* lines 157-161
PixelQaShadow(l1_qa_pix, v) ==
    IF level1_qa_cloud_shadow_confidence(l1_qa_pix) = L2QA_HIGH_CONF
    THEN SetBit(ClearBit(v, L2QA_CLEAR), L2QA_CLD_SHADOW) ELSE v

\* lines 163-167
PixelQaSnow(l1_qa_pix, v) ==
    IF level1_qa_snow_ice_confidence(l1_qa_pix) = L2QA_HIGH_CONF
    THEN SetBit(ClearBit(v, L2QA_CLEAR), L2QA_SNOW) ELSE v

\* lines 169-173
PixelQaCloud(l1_qa_pix, v) ==
    IF level1_qa_is_cloud(l1_qa_pix)
    THEN SetBit(ClearBit(v, L2QA_CLEAR), L2QA_CLOUD) ELSE v

\* Variant of PixelQaCloudConf in which a moderate confidence clears the
\* clear bit as a high one does.
PixelQaCloudConf_ModerateClears(l1_qa_pix, v) ==
    LET a == IF level1_qa_cloud_confidence(l1_qa_pix) = L2QA_LOW_CONF THEN SetBit(v, L2QA_CLOUD_CONF1) ELSE v
        b == IF level1_qa_cloud_confidence(l1_qa_pix) = L2QA_MODERATE_CONF THEN SetBit(ClearBit(a, L2QA_CLEAR), L2QA_CLOUD_CONF2) ELSE a
    IN  IF level1_qa_cloud_confidence(l1_qa_pix) = L2QA_HIGH_CONF
        THEN SetBit(SetBit(ClearBit(b, L2QA_CLEAR), L2QA_CLOUD_CONF1), L2QA_CLOUD_CONF2) ELSE b

\* lines 175-186
PixelQaCloudConf(l1_qa_pix, v) ==
    LET a == IF level1_qa_cloud_confidence(l1_qa_pix) = L2QA_LOW_CONF THEN SetBit(v, L2QA_CLOUD_CONF1) ELSE v
        b == IF level1_qa_cloud_confidence(l1_qa_pix) = L2QA_MODERATE_CONF THEN SetBit(a, L2QA_CLOUD_CONF2) ELSE a
    IN  IF level1_qa_cloud_confidence(l1_qa_pix) = L2QA_HIGH_CONF
        THEN SetBit(SetBit(ClearBit(b, L2QA_CLEAR), L2QA_CLOUD_CONF1), L2QA_CLOUD_CONF2) ELSE b

\* Variant of PixelQaL8 that runs the Landsat 8 block for every sensor.
PixelQaL8_EverySensor(l1_qa_pix, category, v) ==
    LET a == IF level1_qa_cirrus_confidence(l1_qa_pix) = L2QA_LOW_CONF THEN SetBit(v, L2QA_CIRRUS_CONF1) ELSE v
        b == IF level1_qa_cirrus_confidence(l1_qa_pix) = L2QA_MODERATE_CONF THEN SetBit(a, L2QA_CIRRUS_CONF2) ELSE a
        c == IF level1_qa_cirrus_confidence(l1_qa_pix) = L2QA_HIGH_CONF THEN SetBit(SetBit(b, L2QA_CIRRUS_CONF1), L2QA_CIRRUS_CONF2) ELSE b
    IN  IF level1_qa_is_terrain_occluded(l1_qa_pix) THEN SetBit(c, L2QA_TERRAIN_OCCL) ELSE c

\* lines 190-209
PixelQaL8(l1_qa_pix, category, v) ==
    IF category = "LEVEL1_L8"
    THEN LET a == IF level1_qa_cirrus_confidence(l1_qa_pix) = L2QA_LOW_CONF THEN SetBit(v, L2QA_CIRRUS_CONF1) ELSE v
             b == IF level1_qa_cirrus_confidence(l1_qa_pix) = L2QA_MODERATE_CONF THEN SetBit(a, L2QA_CIRRUS_CONF2) ELSE a
             c == IF level1_qa_cirrus_confidence(l1_qa_pix) = L2QA_HIGH_CONF THEN SetBit(SetBit(b, L2QA_CIRRUS_CONF1), L2QA_CIRRUS_CONF2) ELSE b
         IN  IF level1_qa_is_terrain_occluded(l1_qa_pix) THEN SetBit(c, L2QA_TERRAIN_OCCL) ELSE c
    ELSE v

\* Variant of PixelQaPixel that keeps classifying a fill pixel.
PixelQaPixel_FillNotFinal(l1_qa_pix, category, v) ==
    LET f == IF level1_qa_is_fill(l1_qa_pix) THEN PixelQaFill(v) ELSE v
    IN  PixelQaL8(l1_qa_pix, category, PixelQaCloudConf(l1_qa_pix, PixelQaCloud(l1_qa_pix, PixelQaSnow(l1_qa_pix, PixelQaShadow(l1_qa_pix, f)))))

\* The body of the classification loop (lines 150-211): the value of
\* l2_qa[i] after it, v being its value before.
PixelQaPixel(l1_qa_pix, category, v) ==
    IF level1_qa_is_fill(l1_qa_pix) THEN PixelQaFill(v)
    ELSE PixelQaL8(l1_qa_pix, category, PixelQaCloudConf(l1_qa_pix, PixelQaCloud(l1_qa_pix, PixelQaSnow(l1_qa_pix, PixelQaShadow(l1_qa_pix, v)))))

\* The initialisation loop (lines 118-119): every pixel starts as clear.
PixelQaInitLoop(n) == [i \in 0 .. n - 1 |-> Pow2(L2QA_CLEAR)]

\* The classification loop (lines 149-212) from pixel i on.
RECURSIVE PixelQaLoop(_, _, _, _, _)
PixelQaLoop(l1_qa, category, l2_qa, n, i) ==
    IF ~(i < n) THEN l2_qa
    ELSE PixelQaLoop(l1_qa, category, [l2_qa EXCEPT ![i] = PixelQaPixel(l1_qa[i], category, l2_qa[i])], n, i + 1)

\* The band handed to write_pixel_qa.
generate_pixel_qa(l1_qa, category, n_lines, n_samps) == PixelQaLoop(l1_qa, category, PixelQaInitLoop(n_lines * n_samps), n_lines * n_samps, 0)

pixel_qa_cloud_confidence(l2_qa_pix) == ToUint8(BitAnd(ShiftRight(l2_qa_pix, L2QA_CLOUD_CONF1), L2QA_DOUBLE_BIT))

pixel_qa_cirrus_confidence(l2_qa_pix) == ToUint8(BitAnd(ShiftRight(l2_qa_pix, L2QA_CIRRUS_CONF1), L2QA_DOUBLE_BIT))

pixel_qa_is_terrain_occluded(l2_qa_pix) == BitAnd(ShiftRight(l2_qa_pix, L2QA_TERRAIN_OCCL), L2QA_SINGLE_BIT) = 1

(***************************************************************************)
(* The accessors of the LEDAPS cloud QA and the LaSRC aerosol QA bands,    *)
(* level2_lib/read_level2_qa.h.                                            *)
(***************************************************************************)
ESPA_L2_SINGLE_BIT == 1
LEDAPS_DDV_BIT == 0
LEDAPS_CLOUD_BIT == 1
LEDAPS_CLOUD_SHADOW_BIT == 2
LEDAPS_ADJ_CLOUD_BIT == 3
LEDAPS_SNOW_BIT == 4
LEDAPS_LAND_WATER_BIT == 5
LASRC_FILL_BIT == 0
LASRC_VALID_AEROSOL_RET_BIT == 1
LASRC_AEROSOL_INTERP_BIT == 2
LASRC_WATER_BIT == 3

ledaps_qa_is_ddv(l2_qa_pix) == BitAnd(ShiftRight(l2_qa_pix, LEDAPS_DDV_BIT), ESPA_L2_SINGLE_BIT) = 1
ledaps_qa_is_cloud(l2_qa_pix) == BitAnd(ShiftRight(l2_qa_pix, LEDAPS_CLOUD_BIT), ESPA_L2_SINGLE_BIT) = 1
ledaps_qa_is_cloud_shadow(l2_qa_pix) == BitAnd(ShiftRight(l2_qa_pix, LEDAPS_CLOUD_SHADOW_BIT), ESPA_L2_SINGLE_BIT) = 1
ledaps_qa_is_adj_cloud(l2_qa_pix) == BitAnd(ShiftRight(l2_qa_pix, LEDAPS_ADJ_CLOUD_BIT), ESPA_L2_SINGLE_BIT) = 1
ledaps_qa_is_snow(l2_qa_pix) == BitAnd(ShiftRight(l2_qa_pix, LEDAPS_SNOW_BIT), ESPA_L2_SINGLE_BIT) = 1
ledaps_qa_is_land_water(l2_qa_pix) == BitAnd(ShiftRight(l2_qa_pix, LEDAPS_LAND_WATER_BIT), ESPA_L2_SINGLE_BIT) = 1
lasrc_qa_is_fill(l2_qa_pix) == BitAnd(ShiftRight(l2_qa_pix, LASRC_FILL_BIT), ESPA_L2_SINGLE_BIT) = 1
lasrc_qa_is_valid_aerosol_retrieval(l2_qa_pix) == BitAnd(ShiftRight(l2_qa_pix, LASRC_VALID_AEROSOL_RET_BIT), ESPA_L2_SINGLE_BIT) = 1
lasrc_qa_is_aerosol_interp(l2_qa_pix) == BitAnd(ShiftRight(l2_qa_pix, LASRC_AEROSOL_INTERP_BIT), ESPA_L2_SINGLE_BIT) = 1
lasrc_qa_is_water(l2_qa_pix) == BitAnd(ShiftRight(l2_qa_pix, LASRC_WATER_BIT), ESPA_L2_SINGLE_BIT) = 1

(***************************************************************************)
(* The dilation tools, tools/dilate_class_value.c and                      *)
(* tools/dilate_pixel_qa.c: main reads the band into idata, calls the      *)
(* engine with a zeroed ddata, and writes ddata back to the same band      *)
(* file, so that a later run of the tool dilates the result again.         *)
(***************************************************************************)
VARIABLES
    tool,       \* the program that runs
    nlines,     \* number of lines of the band
    nsamps,     \* number of samples of the band
    distance,   \* --distance
    search,     \* --class (class_value) or --bit (bit_value)
    idata,      \* the band as read, input of the engine
    ddata,      \* output buffer of the engine
    phase,      \* "read": idata holds the band; "dilated": the engine returned
    passes,     \* number of runs of the tool completed on this band
    qa_category,\* sensor family open_level1_qa reports ("none": not opened)
    results,    \* what the accessors returned to a test program
    pc,         \* row-parallel engine: the position of the worker of each row
    scratch,    \* row-parallel engine: the scratch variables, private and shared
    stores,     \* row-parallel engine: number of stores to each output cell
    storer,     \* row-parallel engine: the workers that stored to each cell
    step,       \* run of a program: the step of main or of the generator that is next
    status,     \* run of a program: "running", or what the program returned
    trace,      \* run of a program: the steps executed so far, each with its result
    disk,       \* run of a program: the files the run reads and leaves behind
    args,       \* run of a program: the command line
    cursor,     \* run of a generator: the loop variable i of the classification loop
    build       \* stepwise loops: what the build does where an int operation overflows

vars == <<tool, nlines, nsamps, distance, search, idata, ddata, phase, passes, qa_category, results, pc, scratch, stores, storer, step, status, trace, disk, args, cursor, build>>

\* No row-parallel call of an engine is in progress.
ParIdle == pc = <<>> /\ scratch = <<>> /\ stores = <<>> /\ storer = <<>>

\* The engine or the classifier is called directly, not from a stepwise run
\* of main.
RunIdle ==
    /\ step = "none" /\ status = "none" /\ trace = <<>>
    /\ disk = <<>> /\ args = <<>> /\ cursor = 0
    /\ build = "none"

\* Pixel values the bands are drawn from.
ClassValues == {CLASS_L2QA_CLEAR, CLASS_L2QA_CLD_SHADOW, CLASS_L2QA_CLOUD, CLASS_L2QA_FILL}
\* clear; clear+cloud shadow; clear+cloud; fill+clear+cloud
QaValues == {2, 10, 34, 35}
\* Targets the engines are called with
\* (get_args of the tools rejects 255 as a missing --class / --bit)
SearchValues == {CLASS_L2QA_CLOUD}
SearchBits == {L2QA_CLD_SHADOW, L2QA_CLOUD}
\* Values cleaning_bit_mask may hold before its first assignment.
Indeterminate == {0, 65535}

\* The bands of n pixels that differ from a uniform band in at most m pixels.
RECURSIVE Bands(_, _, _)
Bands(n, values, m) ==
    IF m = 0 THEN {[i \in 0 .. n - 1 |-> bg] : bg \in values}
    ELSE LET S == Bands(n, values, m - 1) IN
         S \cup {[f EXCEPT ![p] = v] : f \in S, p \in 0 .. n - 1, v \in values}

Init ==
    /\ tool \in {"dilate_class_value", "dilate_pixel_qa"}
    /\ nlines \in 1 .. MaxPixels
    /\ nsamps \in 1 .. MaxPixels
    /\ nlines * nsamps <= MaxPixels
    /\ distance \in 0 .. MaxDist
    /\ search \in (IF tool = "dilate_class_value" THEN SearchValues ELSE SearchBits)
    /\ idata \in Bands(nlines * nsamps, IF tool = "dilate_class_value" THEN ClassValues ELSE QaValues, MaxMarks)
    /\ ddata = Calloc(nlines * nsamps)
    /\ phase = "read"
    /\ passes = 0
    /\ qa_category = "none"
    /\ results = <<>>
    /\ ParIdle
    /\ RunIdle

\* tools/dilate_class_value.c main, line 273
RunDilateClassValue ==
    /\ tool = "dilate_class_value"
    /\ phase = "read"
    /\ ddata' = dilate_class_value(idata, search, distance, nlines, nsamps, ddata)
    /\ phase' = "dilated"
    /\ UNCHANGED <<tool, nlines, nsamps, distance, search, idata, passes, qa_category, results, pc, scratch, stores, storer, step, status, trace, disk, args, cursor, build>>

\* tools/dilate_pixel_qa.c main, line 274
RunDilatePixelQa ==
    /\ tool = "dilate_pixel_qa"
    /\ phase = "read"
    /\ \E indeterminate \in Indeterminate :
          ddata' = dilate_pixel_qa(idata, search, distance, nlines, nsamps, ddata, indeterminate)
    /\ phase' = "dilated"
    /\ UNCHANGED <<tool, nlines, nsamps, distance, search, idata, passes, qa_category, results, pc, scratch, stores, storer, step, status, trace, disk, args, cursor, build>>

\* main writes ddata to the band file and exits; the next run of the tool
\* with the same arguments reads that band into a fresh idata.
WriteAndRerun ==
    /\ phase = "dilated"
    /\ passes + 1 < MaxPasses
    /\ idata' = ddata
    /\ ddata' = Calloc(nlines * nsamps)
    /\ phase' = "read"
    /\ passes' = passes + 1
    /\ UNCHANGED <<tool, nlines, nsamps, distance, search, qa_category, results, pc, scratch, stores, storer, step, status, trace, disk, args, cursor, build>>

Next == RunDilateClassValue \/ RunDilatePixelQa \/ WriteAndRerun

Spec == Init /\ [][Next]_vars

\* The larger of the two sides of the band.
MaxSide == IF nlines > nsamps THEN nlines ELSE nsamps

\* Runs of the tools with a --distance that is at least both sides of the
\* band (the option is an 8-bit number, the band of the model is small).
InitSaturate ==
    /\ tool \in {"dilate_class_value", "dilate_pixel_qa"}
    /\ nlines \in 1 .. MaxPixels
    /\ nsamps \in 1 .. MaxPixels
    /\ nlines * nsamps <= MaxPixels
    /\ distance \in {MaxSide, MaxSide + 1}
    /\ search \in (IF tool = "dilate_class_value" THEN SearchValues ELSE SearchBits)
    /\ idata \in Bands(nlines * nsamps, IF tool = "dilate_class_value" THEN ClassValues ELSE QaValues, MaxMarks)
    /\ ddata = Calloc(nlines * nsamps)
    /\ phase = "read"
    /\ passes = 0
    /\ qa_category = "none"
    /\ results = <<>>
    /\ ParIdle
    /\ RunIdle

\* One run of either tool.
NextSaturate == RunDilateClassValue \/ RunDilatePixelQa

SpecSaturate == InitSaturate /\ [][NextSaturate]_vars

(***************************************************************************)
(* The generators and the test programs of the accessors.  A generator     *)
(* reads the Level-1 QA band into idata and hands ddata to the band        *)
(* writer; a test program applies the accessors to the value idata[0].     *)
(***************************************************************************)
\* The values of a 16-bit Level-1 QA pixel
L1QaValues == 0 .. Pow2(QA_BITS) - 1
\* The values of an 8-bit Level-2 QA pixel
L2QaValues == 0 .. 255
\* read_level1_qa.c lines 373-376
QaCategories == {"LEVEL1_L457", "LEVEL1_L8"}

InitQa ==
    /\ tool \in {"generate_level2_qa", "generate_pixel_qa", "test_read_level1_qa", "test_read_level2_qa"}
    /\ nlines = 1
    /\ nsamps = 1
    /\ distance = 0
    /\ search = 0
    /\ idata \in [0 .. 0 -> IF tool = "test_read_level2_qa" THEN L2QaValues ELSE L1QaValues]
    /\ ddata = Calloc(nlines * nsamps)
    /\ phase = "read"
    /\ passes = 0
    /\ qa_category \in (IF tool \in {"generate_level2_qa", "generate_pixel_qa"} THEN QaCategories ELSE {"none"})
    /\ results = <<>>
    /\ ParIdle
    /\ RunIdle

\* generate_level2_qa.c lines 74-160
RunGenerateLevel2Qa ==
    /\ tool = "generate_level2_qa"
    /\ phase = "read"
    /\ ddata' = generate_level2_qa(idata, nlines, nsamps)
    /\ phase' = "generated"
    /\ UNCHANGED <<tool, nlines, nsamps, distance, search, idata, passes, qa_category, results, pc, scratch, stores, storer, step, status, trace, disk, args, cursor, build>>

\* generate_pixel_qa.c lines 76-220
RunGeneratePixelQa ==
    /\ tool = "generate_pixel_qa"
    /\ phase = "read"
    /\ ddata' = generate_pixel_qa(idata, qa_category, nlines, nsamps)
    /\ phase' = "generated"
    /\ UNCHANGED <<tool, nlines, nsamps, distance, search, idata, passes, qa_category, results, pc, scratch, stores, storer, step, status, trace, disk, args, cursor, build>>

\* level1_lib/tests/test_read_level1_qa.c: the accessors applied to a value
RunTestReadLevel1Qa ==
    /\ tool = "test_read_level1_qa"
    /\ phase = "read"
    /\ results' = [is_fill |-> level1_qa_is_fill(idata[0]),
                   is_cloud |-> level1_qa_is_cloud(idata[0]),
                   cloud_confidence |-> level1_qa_cloud_confidence(idata[0]),
                   cloud_shadow_confidence |-> level1_qa_cloud_shadow_confidence(idata[0]),
                   snow_ice_confidence |-> level1_qa_snow_ice_confidence(idata[0]),
                   cirrus_confidence |-> level1_qa_cirrus_confidence(idata[0])]
    /\ phase' = "tested"
    /\ UNCHANGED <<tool, nlines, nsamps, distance, search, idata, ddata, passes, qa_category, pc, scratch, stores, storer, step, status, trace, disk, args, cursor, build>>

\* level2_lib/tests/test_read_level2_qa.c: the accessors applied to a value
RunTestReadLevel2Qa ==
    /\ tool = "test_read_level2_qa"
    /\ phase = "read"
    /\ results' = [ledaps_ddv |-> ledaps_qa_is_ddv(idata[0]),
                   ledaps_cloud |-> ledaps_qa_is_cloud(idata[0]),
                   ledaps_cloud_shadow |-> ledaps_qa_is_cloud_shadow(idata[0]),
                   ledaps_adj_cloud |-> ledaps_qa_is_adj_cloud(idata[0]),
                   ledaps_snow |-> ledaps_qa_is_snow(idata[0]),
                   ledaps_land_water |-> ledaps_qa_is_land_water(idata[0]),
                   lasrc_fill |-> lasrc_qa_is_fill(idata[0]),
                   lasrc_valid_aerosol_retrieval |-> lasrc_qa_is_valid_aerosol_retrieval(idata[0]),
                   lasrc_aerosol_interp |-> lasrc_qa_is_aerosol_interp(idata[0]),
                   lasrc_water |-> lasrc_qa_is_water(idata[0])]
    /\ phase' = "tested"
    /\ UNCHANGED <<tool, nlines, nsamps, distance, search, idata, ddata, passes, qa_category, pc, scratch, stores, storer, step, status, trace, disk, args, cursor, build>>

NextQa == RunGenerateLevel2Qa \/ RunGeneratePixelQa \/ RunTestReadLevel1Qa \/ RunTestReadLevel2Qa

SpecQa == InitQa /\ [][NextQa]_vars

(***************************************************************************)
(* The engines built with OpenMP: "#pragma omp parallel for private(...)"  *)
(* on the row loop (class_dilation.c 49-52, pixel_qa_dilation.c 70-73).    *)
(* Every iteration of the row loop is taken by a worker; the model runs    *)
(* one worker per row, which allows every interleaving that any            *)
(* partitioning of the rows among threads allows.  A variable named in the *)
(* private clause has one copy per worker, any other local variable of the *)
(* function is one location shared by all workers.  A step of a worker is  *)
(* the start of a pixel, the load of a window cell, its test, or a store   *)
(* to the output buffer.                                                   *)
(***************************************************************************)
MaxParPixels == 4
MaxParRows == 2

\* Variant of ClassPrivateList without found.
ClassPrivateList_NoFound == {"start_row", "end_row", "row_index", "col", "output_index", "start_col", "end_col", "window_row", "window_row_index", "window_col", "input_index"}

\* class_dilation.c line 50
ClassPrivateList == {"start_row", "end_row", "row_index", "col", "output_index", "start_col", "end_col", "found", "window_row", "window_row_index", "window_col", "input_index"}

\* pixel_qa_dilation.c line 71
QaPrivateList == {"start_row", "end_row", "row_index", "col", "output_index", "start_col", "end_col", "found", "window_row", "window_row_index", "window_col", "input_index"}

\* The local variables the loop body assigns and reads back in a later step
\* (the other locals are recomputed from these and from row).
ClassScratch == {"col", "found", "window_row", "window_col"}
QaScratch == {"col", "found", "window_row", "window_col", "input_val"}

PrivateList == IF tool = "dilate_class_value" THEN ClassPrivateList ELSE QaPrivateList

\* The slot of scratch that holds the shared locations.
SharedSlot == -1
\* Where worker w finds the variable name: its own copy or the shared one
Loc(w, name) == IF name \in PrivateList THEN w ELSE SharedSlot
Get(sc, w, name) == sc[Loc(w, name)][name]
Put(sc, w, name, val) == [sc EXCEPT ![Loc(w, name)][name] = val]

\* Values of the bands and targets of the row-parallel runs
ParClassValues == {CLASS_L2QA_CLEAR, CLASS_L2QA_CLOUD, CLASS_L2QA_FILL}
ParQaValues == {2, 34, 35}

\* Variant of OutputIndex that addresses the band column by column.
OutputIndex_ColumnMajor(row, col, nrows, ncols) == col * nrows + row

\* row_index = row * ncols; output_index = row_index + col
OutputIndex(row, col, nrows, ncols) == row * ncols + col

\* The two window loops from window_row = wr, window_col = wc on, as far as
\* the next cell inside the raster: that cell, or <<>> when the loops end.
RECURSIVE ScanFrom(_, _, _, _)
ScanFrom(row, col, wr, wc) ==
    IF ~(wr < row + distance + 1) THEN <<>>
    ELSE IF wr < 0 \/ wr > (nlines - 1) THEN ScanFrom(row, col, wr + 1, col - distance)
    ELSE IF ~(wc < col + distance + 1) THEN ScanFrom(row, col, wr + 1, col - distance)
    ELSE IF wc < 0 \/ wc > (nsamps - 1) THEN ScanFrom(row, col, wr, wc + 1)
    ELSE <<wr, wc>>

\* The scratch variables before the loop: not yet assigned, but col = 0.
ScratchInit == [col |-> 0, found |-> FALSE, window_row |-> 0, window_col |-> 0, input_val |-> 0]

InitPar ==
    /\ tool \in {"dilate_class_value", "dilate_pixel_qa"}
    /\ nlines \in 1 .. MaxParRows
    /\ nsamps \in 1 .. MaxParPixels
    /\ nlines * nsamps <= MaxParPixels
    /\ distance \in 0 .. MaxDist
    /\ search = (IF tool = "dilate_class_value" THEN CLASS_L2QA_CLOUD ELSE L2QA_CLOUD)
    /\ idata \in [0 .. nlines * nsamps - 1 -> IF tool = "dilate_class_value" THEN ParClassValues ELSE ParQaValues]
    /\ ddata = Calloc(nlines * nsamps)
    /\ phase = "read"
    /\ passes = 0
    /\ qa_category = "none"
    /\ results = <<>>
    /\ pc = [w \in 0 .. nlines - 1 |-> "pixel"]
    /\ scratch = [w \in SharedSlot .. nlines - 1 |-> ScratchInit]
    /\ RunIdle
    /\ stores = [i \in 0 .. nlines * nsamps - 1 |-> 0]
    /\ storer = [i \in 0 .. nlines * nsamps - 1 |-> {}]

\* output_data[index] = value, by worker w
Store(w, index, value) ==
    /\ ddata' = [ddata EXCEPT ![index] = value]
    /\ stores' = [stores EXCEPT ![index] = @ + 1]
    /\ storer' = [storer EXCEPT ![index] = @ \cup {w}]

\* The pc of a worker that starts the scan of a window cell.
ScanPc == IF tool = "dilate_pixel_qa" THEN "load" ELSE "test"

\* Worker w at the head of the column loop: leaves the row, copies a fill
\* pixel (both engines), stores a pixel that has the search value (quick
\* check of class_dilation.c 70-75), or starts the window scan.
ParPixel(w) ==
    /\ pc[w] = "pixel"
    /\ LET col == Get(scratch, w, "col")
           output_index == OutputIndex(w, col, nlines, nsamps)
       IN  IF ~(col < nsamps)
           THEN /\ pc' = [pc EXCEPT ![w] = "done"]
                /\ UNCHANGED <<scratch, ddata, stores, storer>>
           ELSE IF tool = "dilate_class_value" /\ idata[output_index] = CLASS_L2QA_FILL
           THEN /\ Store(w, output_index, CLASS_L2QA_FILL)
                /\ scratch' = Put(scratch, w, "col", col + 1)
                /\ UNCHANGED pc
           ELSE IF tool = "dilate_pixel_qa" /\ pixel_qa_is_fill(idata[output_index])
           THEN /\ Store(w, output_index, idata[output_index])
                /\ scratch' = Put(scratch, w, "col", col + 1)
                /\ UNCHANGED pc
           ELSE IF tool = "dilate_class_value" /\ idata[output_index] = search
           THEN /\ Store(w, output_index, search)
                /\ scratch' = Put(scratch, w, "col", col + 1)
                /\ UNCHANGED pc
           ELSE LET cell == ScanFrom(w, col, w - distance, col - distance)
                    s1 == Put(scratch, w, "found", FALSE)
                    s2 == Put(s1, w, "window_row", cell[1])
                IN  /\ scratch' = Put(s2, w, "window_col", cell[2])
                    /\ pc' = [pc EXCEPT ![w] = ScanPc]
                    /\ UNCHANGED <<ddata, stores, storer>>
    /\ UNCHANGED <<tool, nlines, nsamps, distance, search, idata, phase, passes, qa_category, results, step, status, trace, disk, args, cursor, build>>

\* pixel_qa_dilation.c line 118: input_val = input_data[input_index] >> search_bit
ParLoad(w) ==
    /\ pc[w] = "load"
    /\ LET input_index == Get(scratch, w, "window_row") * nsamps + Get(scratch, w, "window_col")
       IN  scratch' = Put(scratch, w, "input_val", ShiftRight(idata[input_index], search))
    /\ pc' = [pc EXCEPT ![w] = "test"]
    /\ UNCHANGED <<tool, nlines, nsamps, distance, search, idata, ddata, phase, passes, qa_category, results, stores, storer, step, status, trace, disk, args, cursor, build>>

\* The test of the window cell (pixel_qa_dilation.c 119-123, class_dilation.c
\* 103-107): on a match found = true and the loops are left; otherwise the
\* loops go on to the next cell inside the raster, or end.
ParTest(w) ==
    /\ pc[w] = "test"
    /\ LET window_row == Get(scratch, w, "window_row")
           window_col == Get(scratch, w, "window_col")
           input_index == window_row * nsamps + window_col
           match == IF tool = "dilate_pixel_qa"
                    THEN BitAnd(Get(scratch, w, "input_val"), L2QA_SINGLE_BIT) # 0
                    ELSE idata[input_index] = search
           cell == ScanFrom(w, Get(scratch, w, "col"), window_row, window_col + 1)
       IN  IF match
           THEN /\ scratch' = Put(scratch, w, "found", TRUE)
                /\ pc' = [pc EXCEPT ![w] = "store"]
           ELSE IF cell = <<>>
           THEN /\ pc' = [pc EXCEPT ![w] = "store"]
                /\ UNCHANGED scratch
           ELSE /\ scratch' = Put(Put(scratch, w, "window_row", cell[1]), w, "window_col", cell[2])
                /\ pc' = [pc EXCEPT ![w] = ScanPc]
    /\ UNCHANGED <<tool, nlines, nsamps, distance, search, idata, ddata, phase, passes, qa_category, results, stores, storer, step, status, trace, disk, args, cursor, build>>

\* The store after the window loops (pixel_qa_dilation.c 127-139,
\* class_dilation.c 111-114); dilate_pixel_qa goes on to line 134.
ParStore(w) ==
    /\ pc[w] = "store"
    /\ LET col == Get(scratch, w, "col")
           output_index == OutputIndex(w, col, nlines, nsamps)
       IN  IF Get(scratch, w, "found") /\ tool = "dilate_pixel_qa"
           THEN /\ Store(w, output_index, BitOr(idata[output_index], UserBitMask(search)))
                /\ pc' = [pc EXCEPT ![w] = "clean"]
                /\ UNCHANGED scratch
           ELSE /\ Store(w, output_index, IF Get(scratch, w, "found") THEN search ELSE idata[output_index])
                /\ scratch' = Put(scratch, w, "col", col + 1)
                /\ pc' = [pc EXCEPT ![w] = "pixel"]
    /\ UNCHANGED <<tool, nlines, nsamps, distance, search, idata, phase, passes, qa_category, results, step, status, trace, disk, args, cursor, build>>

\* pixel_qa_dilation.c line 134: output_data[output_index] &= cleaning_bit_mask
ParClean(w) ==
    /\ pc[w] = "clean"
    /\ LET col == Get(scratch, w, "col")
           output_index == OutputIndex(w, col, nlines, nsamps)
       IN  /\ \E indeterminate \in Indeterminate :
                 Store(w, output_index, BitAnd(ddata[output_index], CleaningBitMask(search, indeterminate)))
           /\ scratch' = Put(scratch, w, "col", col + 1)
    /\ pc' = [pc EXCEPT ![w] = "pixel"]
    /\ UNCHANGED <<tool, nlines, nsamps, distance, search, idata, phase, passes, qa_category, results, step, status, trace, disk, args, cursor, build>>

\* The end of the parallel loop: every worker has left its row and the
\* engine returns.
ParJoin ==
    /\ pc # <<>>
    /\ phase = "read"
    /\ \A w \in DOMAIN pc : pc[w] = "done"
    /\ phase' = "dilated"
    /\ UNCHANGED <<tool, nlines, nsamps, distance, search, idata, ddata, passes, qa_category, results, pc, scratch, stores, storer, step, status, trace, disk, args, cursor, build>>

NextPar ==
    \/ \E w \in DOMAIN pc : ParPixel(w)
    \/ \E w \in DOMAIN pc : ParLoad(w)
    \/ \E w \in DOMAIN pc : ParTest(w)
    \/ \E w \in DOMAIN pc : ParStore(w)
    \/ \E w \in DOMAIN pc : ParClean(w)
    \/ ParJoin

SpecPar == InitPar /\ [][NextPar]_vars

(***************************************************************************)
(* A run of a program one collaborator call at a time: main of the two     *)
(* dilation tools (tools/dilate_class_value.c, tools/dilate_pixel_qa.c)    *)
(* and the two generators (level2_lib/generate_level2_qa.c,                *)
(* pixel_qa/generate_pixel_qa.c).  Every call the code tests the result of *)
(* either succeeds or fails; a failure is followed by the return the code  *)
(* makes there.                                                            *)
(***************************************************************************)
\* The numbers given to --bit, --class and --distance wrap around 8 bits at
\* most MaxWraps times.
MaxWraps == 1
\* The bands of a stepwise run have at most MaxRunPixels pixels.
MaxRunPixels == 2

DilationTools == {"dilate_class_value", "dilate_pixel_qa"}
Generators == {"generate_level2_qa", "generate_pixel_qa"}

\* main of the tools, tools/dilate_pixel_qa.c lines 199-308 and
\* tools/dilate_class_value.c lines 198-307: the calls in program order
ToolSteps == <<"get_args", "open", "calloc_idata", "calloc_ddata", "read", "dilate", "create", "write">>

\* Variant of GenerateSteps in which the band is written before the
\* classification loop.
GenerateSteps_WriteBeforeClassify ==
    <<"open_level1_qa", "calloc_l1_qa", "read_level1_qa", "calloc_l2_qa", "strrchr",
      "create", "write", "classify", "parse_metadata", "find_b1", "check_size",
      "allocate_band_metadata", "allocate_bitmap_metadata", "time", "gmtime",
      "strftime", "create_envi_struct", "write_envi_hdr", "append_metadata">>

\* generate_pixel_qa.c lines 78-399 and generate_level2_qa.c lines 76-328:
\* the calls and the tests in program order
GenerateSteps ==
    <<"open_level1_qa", "calloc_l1_qa", "read_level1_qa", "calloc_l2_qa", "strrchr",
      "create", "classify", "write", "parse_metadata", "find_b1", "check_size",
      "allocate_band_metadata", "allocate_bitmap_metadata", "time", "gmtime",
      "strftime", "create_envi_struct", "write_envi_hdr", "append_metadata">>

Steps == IF tool \in DilationTools THEN ToolSteps ELSE GenerateSteps

\* The step that follows step s when s succeeded; "return" after the last.
After(s) ==
    LET k == CHOOSE k \in 1 .. Len(Steps) : Steps[k] = s
    IN  IF k = Len(Steps) THEN "return" ELSE Steps[k + 1]

\* The calls whose failure depends on the environment: the files, the memory
\* and the clock.  The other steps are decided by the state of the run.
FallibleSteps ==
    {"open", "calloc_idata", "calloc_ddata", "read", "create",
     "open_level1_qa", "calloc_l1_qa", "read_level1_qa", "calloc_l2_qa",
     "parse_metadata", "allocate_band_metadata", "allocate_bitmap_metadata",
     "time", "gmtime", "strftime", "create_envi_struct", "write_envi_hdr",
     "append_metadata"}

\* Variant of FailureStatus in which main returns EXIT_SUCCESS after a
\* failed write.
FailureStatus_WriteIgnored(s) ==
    IF tool \in DilationTools
    THEN (IF s = "write" THEN "EXIT_SUCCESS" ELSE "EXIT_FAILURE")
    ELSE "ERROR"

\* What the program returns when step s failed: return EXIT_FAILURE in main,
\* return (ERROR) in the generators.
FailureStatus(s) == IF tool \in DilationTools THEN "EXIT_FAILURE" ELSE "ERROR"

\* What the program returns at its end: return EXIT_SUCCESS in main,
\* return (SUCCESS) in the generators.
SuccessStatus == IF tool \in DilationTools THEN "EXIT_SUCCESS" ELSE "SUCCESS"

\* An option that is not on the command line.
NoOption == -1

\* Variant of pixel_get_args that stores the numbers uncast.
pixel_get_args_NoCast(a) ==
    IF a.flag = "version" THEN [ret |-> "exit", bit_value |-> 255, distance |-> 255]
    ELSE IF a.flag \in {"help", "invalid"} THEN [ret |-> "ERROR", bit_value |-> 255, distance |-> 255]
    ELSE LET bit_value == IF a.search = NoOption THEN 255 ELSE a.search
             dist == IF a.distance = NoOption THEN 255 ELSE a.distance
         IN  [ret |-> IF ~a.xml THEN "ERROR"
                      ELSE IF bit_value = 255 THEN "ERROR"
                      ELSE IF dist = 255 THEN "ERROR"
                      ELSE "SUCCESS",
              bit_value |-> bit_value, distance |-> dist]

\* tools/dilate_pixel_qa.c, get_args, lines 83-190.  bit_value and distance
\* are the uint8_t variables of main, 255 before the call (lines 203-204);
\* --version exits the program in version(), --help and an unknown option
\* return ERROR; the numbers are stored with (uint8_t) atoi (optarg).
pixel_get_args(a) ==
    IF a.flag = "version" THEN [ret |-> "exit", bit_value |-> 255, distance |-> 255]
    ELSE IF a.flag \in {"help", "invalid"} THEN [ret |-> "ERROR", bit_value |-> 255, distance |-> 255]
    ELSE LET bit_value == IF a.search = NoOption THEN 255 ELSE ToUint8(a.search)
             dist == IF a.distance = NoOption THEN 255 ELSE ToUint8(a.distance)
         IN  [ret |-> IF ~a.xml THEN "ERROR"
                      ELSE IF bit_value = 255 THEN "ERROR"
                      ELSE IF dist = 255 THEN "ERROR"
                      ELSE "SUCCESS",
              bit_value |-> bit_value, distance |-> dist]

\* tools/dilate_class_value.c, get_args, lines 83-189.  The parameters are
\* int * and main passes the addresses of its uint8_t class_value and
\* distance (lines 202-203, 220): each store writes four bytes at a one-byte
\* variable and each test against 255 reads four.  The outcomes are those a
\* build can produce: the low byte of the number, or the second byte of the
\* other number stored over it, in each variable, and either result of the
\* tests.
class_get_args(a) ==
    IF a.flag = "version" THEN {[ret |-> "exit", class_value |-> 255, distance |-> 255]}
    ELSE IF a.flag \in {"help", "invalid"} THEN {[ret |-> "ERROR", class_value |-> 255, distance |-> 255]}
    ELSE IF ~a.xml THEN {[ret |-> "ERROR", class_value |-> 255, distance |-> 255]}
    ELSE LET low_class == IF a.search = NoOption THEN 255 ELSE ToUint8(a.search)
             low_dist == IF a.distance = NoOption THEN 255 ELSE ToUint8(a.distance)
             class_values == {low_class} \cup (IF a.distance = NoOption THEN {} ELSE {ToUint8(a.distance \div 256)})
             dist_values == {low_dist} \cup (IF a.search = NoOption THEN {} ELSE {ToUint8(a.search \div 256)})
         IN  {[ret |-> r, class_value |-> c, distance |-> d] :
                  r \in {"ERROR", "SUCCESS"}, c \in class_values, d \in dist_values}

\* The numbers on the command lines of the runs.
SearchArgs == {k * 256 + r : k \in 0 .. MaxWraps, r \in {3, 4, 5, 255}}
DistanceArgs == {k * 256 + r : k \in 0 .. MaxWraps, r \in {0, 1, 2, 255}}
\* The command lines of the runs: those of dilate_class_value give --class
\* and --distance, each with a low byte other than 255.
CommandLines ==
    IF tool = "dilate_pixel_qa"
    THEN [xml : BOOLEAN, flag : {"", "version", "help", "invalid"},
          search : SearchArgs \cup {NoOption}, distance : DistanceArgs \cup {NoOption}]
    ELSE IF tool = "dilate_class_value"
    THEN [xml : BOOLEAN, flag : {"", "version", "help", "invalid"},
          search : {n \in SearchArgs : n % 256 # 255},
          distance : {n \in DistanceArgs : n % 256 # 255}]
    ELSE [xml : {TRUE}, flag : {""}, search : {NoOption}, distance : {NoOption},
          extension : BOOLEAN]
\* Pixel values of the bands of the runs
RunClassValues == {CLASS_L2QA_CLEAR, CLASS_L2QA_CLOUD}
RunQaValues == {2, 34}
RunL1Values == {0, IAS_QUALITY_BIT_FILL, IAS_QUALITY_BIT_CLOUD, IAS_QUALITY_BIT_SNOW_ICE_11}

\* The band the program reads: the tools read the band they overwrite.
InputBand == IF tool \in DilationTools THEN disk.band ELSE disk.level1_qa

\* The prefix of k cells of a buffer.
Prefix(data, k) == [i \in 0 .. k - 1 |-> data[i]]

InitRun ==
    /\ tool \in DilationTools \cup Generators
    /\ nlines = -1
    /\ nsamps = -1
    /\ distance = (IF tool \in DilationTools THEN 255 ELSE 0)
    /\ search = (IF tool \in DilationTools THEN 255 ELSE 0)
    /\ idata = <<>>
    /\ ddata = <<>>
    /\ phase = "start"
    /\ passes = 0
    /\ qa_category = "none"
    /\ results = <<>>
    /\ ParIdle
    /\ step = Steps[1]
    /\ status = "running"
    /\ trace = <<>>
    /\ cursor = 0
    /\ build = "none"
    /\ \E nl \in 1 .. MaxRunPixels, ns \in 1 .. MaxRunPixels :
          /\ nl * ns <= MaxRunPixels
          /\ \E band \in [0 .. nl * ns - 1 ->
                             IF tool = "dilate_class_value" THEN RunClassValues
                             ELSE IF tool = "dilate_pixel_qa" THEN RunQaValues
                             ELSE RunL1Values] :
                IF tool \in DilationTools
                THEN disk = [nlines |-> nl, nsamps |-> ns, category |-> "none",
                             level1_qa |-> <<>>, band |-> band, created |-> FALSE,
                             hdr |-> FALSE, xml |-> <<>>]
                ELSE \E category \in QaCategories,
                        xml \in {<<[name |-> "b1", nlines |-> nl, nsamps |-> ns]>>,
                                 <<[name |-> "b1", nlines |-> nl + 1, nsamps |-> ns]>>,
                                 <<[name |-> "band1", nlines |-> nl, nsamps |-> ns]>>,
                                 <<[name |-> "band1", nlines |-> nl + 1, nsamps |-> ns]>>,
                                 <<[name |-> "b2", nlines |-> nl, nsamps |-> ns]>>} :
                        disk = [nlines |-> nl, nsamps |-> ns, category |-> category,
                                level1_qa |-> band, band |-> <<>>, created |-> FALSE,
                                hdr |-> FALSE, xml |-> xml]
    /\ args \in CommandLines

\* The step s is next and succeeds.
Succeeds(s) ==
    /\ status = "running"
    /\ step = s
    /\ step' = After(s)
    /\ trace' = Append(trace, [step |-> s, ret |-> "SUCCESS"])
    /\ status' = IF After(s) = "return" THEN SuccessStatus ELSE status

\* A call whose failure depends on the environment fails, and the program
\* returns.
RunStepFails ==
    /\ status = "running"
    /\ step \in FallibleSteps
    /\ status' = FailureStatus(step)
    /\ trace' = Append(trace, [step |-> step, ret |-> "ERROR"])
    /\ \/ step # "write_envi_hdr" /\ disk' = disk
       \/ step = "write_envi_hdr" /\ \E left \in BOOLEAN : disk' = [disk EXCEPT !.hdr = left]
    /\ UNCHANGED <<tool, nlines, nsamps, distance, search, idata, ddata, phase, passes, qa_category, results, pc, scratch, stores, storer, step, args, cursor, build>>

\* main, the call of get_args and its test (pixel lines 215-222, class lines
\* 214-221).
RunGetArgs ==
    /\ status = "running"
    /\ step = "get_args"
    /\ \E r \in (IF tool = "dilate_pixel_qa"
                 THEN {[ret |-> pixel_get_args(args).ret,
                        class_value |-> pixel_get_args(args).bit_value,
                        distance |-> pixel_get_args(args).distance]}
                 ELSE class_get_args(args)) :
          /\ trace' = Append(trace, [step |-> "get_args", ret |-> r.ret])
          /\ IF r.ret = "exit"
             THEN status' = "EXIT_SUCCESS" /\ UNCHANGED <<step, search, distance>>
             ELSE IF r.ret # "SUCCESS"
             THEN status' = "EXIT_FAILURE" /\ UNCHANGED <<step, search, distance>>
             ELSE /\ status' = status
                  /\ step' = After("get_args")
                  /\ search' = r.class_value
                  /\ distance' = r.distance
    /\ UNCHANGED <<tool, nlines, nsamps, idata, ddata, phase, passes, qa_category, results, pc, scratch, stores, storer, disk, args, cursor, build>>

\* open_pixel_qa, open_class_based_qa, open_level1_qa: the size of the band
\* and, for the Level-1 band, the sensor family.
RunOpen ==
    /\ step \in {"open", "open_level1_qa"}
    /\ Succeeds(step)
    /\ nlines' = disk.nlines
    /\ nsamps' = disk.nsamps
    /\ qa_category' = disk.category
    /\ UNCHANGED <<tool, distance, search, idata, ddata, phase, passes, results, pc, scratch, stores, storer, disk, args, cursor, build>>

\* The calloc of the input and of the output buffer; generate_pixel_qa sets
\* every pixel of the new l2_qa to clear (lines 118-119).
RunCalloc ==
    /\ step \in {"calloc_idata", "calloc_l1_qa", "calloc_ddata", "calloc_l2_qa"}
    /\ Succeeds(step)
    /\ IF step \in {"calloc_idata", "calloc_l1_qa"}
       THEN idata' = Calloc(nlines * nsamps) /\ ddata' = ddata
       ELSE /\ idata' = idata
            /\ ddata' = IF tool = "generate_pixel_qa"
                        THEN PixelQaInitLoop(nlines * nsamps)
                        ELSE Calloc(nlines * nsamps)
    /\ UNCHANGED <<tool, nlines, nsamps, distance, search, phase, passes, qa_category, results, pc, scratch, stores, storer, disk, args, cursor, build>>

\* read_pixel_qa, read_class_based_qa, read_level1_qa
RunRead ==
    /\ step \in {"read", "read_level1_qa"}
    /\ Succeeds(step)
    /\ idata' = InputBand
    /\ phase' = "read"
    /\ UNCHANGED <<tool, nlines, nsamps, distance, search, ddata, passes, qa_category, results, pc, scratch, stores, storer, disk, args, cursor, build>>

\* The call of the engine, pixel line 274, class line 273
RunDilate ==
    /\ step = "dilate"
    /\ Succeeds(step)
    /\ \E indeterminate \in Indeterminate :
          ddata' = IF tool = "dilate_pixel_qa"
                   THEN dilate_pixel_qa(idata, search, distance, nlines, nsamps, ddata, indeterminate)
                   ELSE dilate_class_value(idata, search, distance, nlines, nsamps, ddata)
    /\ phase' = "dilated"
    /\ UNCHANGED <<tool, nlines, nsamps, distance, search, idata, passes, qa_category, results, pc, scratch, stores, storer, disk, args, cursor, build>>

\* The generators find the '.' of the XML file name (generate_pixel_qa.c
\* lines 121-130), and return ERROR when there is none.
RunFileName ==
    /\ status = "running"
    /\ step = "strrchr"
    /\ trace' = Append(trace, [step |-> step, ret |-> IF args.extension THEN "SUCCESS" ELSE "ERROR"])
    /\ IF args.extension
       THEN step' = After(step) /\ status' = status
       ELSE step' = step /\ status' = FailureStatus(step)
    /\ UNCHANGED <<tool, nlines, nsamps, distance, search, idata, ddata, phase, passes, qa_category, results, pc, scratch, stores, storer, disk, args, cursor, build>>

\* create_pixel_qa, create_class_based_qa, create_level2_qa: the band file is
\* opened with "w+", which creates it empty.
RunCreate ==
    /\ step = "create"
    /\ Succeeds(step)
    /\ disk' = [disk EXCEPT !.band = <<>>, !.created = TRUE]
    /\ UNCHANGED <<tool, nlines, nsamps, distance, search, idata, ddata, phase, passes, qa_category, results, pc, scratch, stores, storer, args, cursor, build>>

\* One turn of the classification loop of a generator (generate_pixel_qa.c
\* lines 149-212, generate_level2_qa.c lines 144-154), or its exit.
RunClassify ==
    /\ status = "running"
    /\ step = "classify"
    /\ IF cursor < nlines * nsamps
       THEN /\ ddata' = [ddata EXCEPT ![cursor] =
                            IF tool = "generate_pixel_qa"
                            THEN PixelQaPixel(idata[cursor], qa_category, ddata[cursor])
                            ELSE Level2QaPixel(idata[cursor], ddata[cursor])]
            /\ cursor' = cursor + 1
            /\ UNCHANGED <<step, trace, phase>>
       ELSE /\ step' = After(step)
            /\ trace' = Append(trace, [step |-> step, ret |-> "SUCCESS"])
            /\ phase' = "generated"
            /\ UNCHANGED <<ddata, cursor>>
    /\ UNCHANGED <<tool, nlines, nsamps, distance, search, idata, passes, qa_category, results, pc, scratch, stores, storer, status, disk, args, build>>

\* write_pixel_qa, write_class_based_qa, write_level2_qa of the whole
\* buffer; main returns EXIT_SUCCESS after it.
RunWrite ==
    /\ step = "write"
    /\ Succeeds(step)
    /\ disk' = [disk EXCEPT !.band = ddata]
    /\ UNCHANGED <<tool, nlines, nsamps, distance, search, idata, ddata, phase, passes, qa_category, results, pc, scratch, stores, storer, args, cursor, build>>

\* The write fails: a part of the buffer may have reached the file.
RunWriteFails ==
    /\ status = "running"
    /\ step = "write"
    /\ status' = FailureStatus(step)
    /\ trace' = Append(trace, [step |-> step, ret |-> "ERROR"])
    /\ \E k \in 0 .. nlines * nsamps - 1 : disk' = [disk EXCEPT !.band = Prefix(ddata, k)]
    /\ UNCHANGED <<tool, nlines, nsamps, distance, search, idata, ddata, phase, passes, qa_category, results, pc, scratch, stores, storer, step, args, cursor, build>>

\* The calls between the close of the band and the ENVI header that touch
\* no file: parse_metadata, allocate_band_metadata, allocate_bitmap_metadata,
\* time, gmtime, strftime, create_envi_struct.
RunMetadataStep ==
    /\ step \in {"parse_metadata", "allocate_band_metadata", "allocate_bitmap_metadata",
                 "time", "gmtime", "strftime", "create_envi_struct"}
    /\ Succeeds(step)
    /\ UNCHANGED <<tool, nlines, nsamps, distance, search, idata, ddata, phase, passes, qa_category, results, pc, scratch, stores, storer, disk, args, cursor, build>>

\* The name of the representative band each generator looks up in the XML:
\* "b1" in generate_pixel_qa.c (line 243), "band1" in generate_level2_qa.c
\* (line 185).
RepresentativeBand(t) == IF t = "generate_level2_qa" THEN "band1" ELSE "b1"

\* The representative band is looked up in the XML (generate_pixel_qa.c lines
\* 241-258, generate_level2_qa.c lines 183-198) and its size compared with
\* that of the Level-1 band (lines 263-272, resp. 203-212).
RunCheckBand1 ==
    /\ status = "running"
    /\ step \in {"find_b1", "check_size"}
    /\ LET found == {k \in 1 .. Len(disk.xml) : disk.xml[k].name = RepresentativeBand(tool)}
           ok == IF step = "find_b1" THEN found # {}
                 ELSE \A k \in found :
                        (\A j \in found : k <= j) =>
                            nlines = disk.xml[k].nlines /\ nsamps = disk.xml[k].nsamps
       IN  /\ trace' = Append(trace, [step |-> step, ret |-> IF ok THEN "SUCCESS" ELSE "ERROR"])
           /\ IF ok THEN step' = After(step) /\ status' = status
              ELSE step' = step /\ status' = FailureStatus(step)
    /\ UNCHANGED <<tool, nlines, nsamps, distance, search, idata, ddata, phase, passes, qa_category, results, pc, scratch, stores, storer, disk, args, cursor, build>>

\* write_envi_hdr
RunWriteEnviHdr ==
    /\ step = "write_envi_hdr"
    /\ Succeeds(step)
    /\ disk' = [disk EXCEPT !.hdr = TRUE]
    /\ UNCHANGED <<tool, nlines, nsamps, distance, search, idata, ddata, phase, passes, qa_category, results, pc, scratch, stores, storer, args, cursor, build>>

\* append_metadata adds the new band to the XML; the generator returns
\* SUCCESS after it.
RunAppendMetadata ==
    /\ step = "append_metadata"
    /\ Succeeds(step)
    /\ disk' = [disk EXCEPT !.xml = Append(@, [name |-> IF tool = "generate_pixel_qa" THEN "pixel_qa" ELSE "level2_qa",
                                               nlines |-> nlines, nsamps |-> nsamps])]
    /\ UNCHANGED <<tool, nlines, nsamps, distance, search, idata, ddata, phase, passes, qa_category, results, pc, scratch, stores, storer, args, cursor, build>>

NextRun ==
    \/ RunGetArgs
    \/ RunOpen
    \/ RunCalloc
    \/ RunRead
    \/ RunDilate
    \/ RunFileName
    \/ RunCreate
    \/ RunClassify
    \/ RunWrite
    \/ RunWriteFails
    \/ RunMetadataStep
    \/ RunCheckBand1
    \/ RunWriteEnviHdr
    \/ RunAppendMetadata
    \/ RunStepFails

SpecRun == InitRun /\ [][NextRun]_vars

(***************************************************************************)
(* The four nested loops of the engines one test and one statement at a    *)
(* time (class_dilation.c lines 52-115, pixel_qa_dilation.c lines 73-141), *)
(* in the signed int arithmetic of the code.  The int of the model has     *)
(* IntBits bits where the int of the code has 32: the loops of a window    *)
(* of INT_MAX rows are then short enough to be run.  An int operation      *)
(* whose result is not representable is undefined; what it gives depends   *)
(* on the build, which either wraps the result around or carries on with   *)
(* the number in a wider register, in the loop tests and in the indices.   *)
(***************************************************************************)
\* Width of int in the stepwise loops.
IntBits == 3
\* Rasters of the stepwise loops have at most MaxLoopSide rows and columns.
MaxLoopSide == 3

INT_MAX == 2 ^ (IntBits - 1) - 1
INT_MIN == -(2 ^ (IntBits - 1))

\* The two's complement int that a number wraps around to: the value an int
\* variable holds after the number was stored to it.
Wrap(x) == ((x - INT_MIN) % (2 ^ IntBits)) + INT_MIN

\* What the builds do with end_row + 1 and end_col + 1 in the loop tests
\* and with the products and sums of the indices.
Builds == [test : {"wrap", "wide"}, index : {"wrap", "wide"}]

\* The right-hand side of window_row < end_row + 1 and of
\* window_col < end_col + 1.
LoopLimit(end) == IF build.test = "wrap" THEN Wrap(end + 1) ELSE end + 1

\* An index of mathematical value x as the build computes it.
IntIndex(x) == IF build.index = "wrap" THEN Wrap(x) ELSE x

\* The locals of the engine before the row loop: not yet assigned, row = 0.
LoopLocals ==
    [row |-> 0, col |-> 0, window_row |-> 0, window_col |-> 0,
     start_row |-> 0, end_row |-> 0, start_col |-> 0, end_col |-> 0,
     row_index |-> 0, window_row_index |-> 0, output_index |-> 0,
     input_index |-> 0, found |-> FALSE]

\* Radii of the stepwise loops: small ones and the largest an int holds.
LoopDistances == {0, 1, INT_MAX}

\* The rasters of the stepwise loops: clear, with at most one pixel that is
\* a cloud or fill.
LoopBands(n) ==
    LET clear == IF tool = "dilate_class_value" THEN CLASS_L2QA_CLEAR ELSE 2
        marks == IF tool = "dilate_class_value" THEN {CLASS_L2QA_CLOUD, CLASS_L2QA_FILL} ELSE {34, 1}
        S == [i \in 0 .. n - 1 |-> clear]
    IN  {S} \cup {[S EXCEPT ![p] = v] : p \in 0 .. n - 1, v \in marks}

InitLoops ==
    /\ tool \in DilationTools
    /\ nlines \in 0 .. MaxLoopSide
    /\ nsamps \in 0 .. MaxLoopSide
    /\ distance \in LoopDistances
    /\ search = (IF tool = "dilate_class_value" THEN CLASS_L2QA_CLOUD ELSE L2QA_CLOUD)
    /\ idata \in LoopBands(nlines * nsamps)
    /\ ddata = Calloc(nlines * nsamps)
    /\ phase = "read"
    /\ passes = 0
    /\ qa_category = "none"
    /\ results = <<>>
    /\ pc = "row"
    /\ scratch = LoopLocals
    /\ stores = <<>>
    /\ storer = <<>>
    /\ step = "none" /\ status = "none" /\ trace = <<>>
    /\ disk = <<>> /\ args = <<>> /\ cursor = 0
    /\ build \in Builds

\* The index is one of a cell of the raster.
InRaster(index) == index \in 0 .. nlines * nsamps - 1

\* The cell of the window matches the target (class_dilation.c line 103,
\* pixel_qa_dilation.c lines 118-119).
LoopMatch(input_pix) ==
    IF tool = "dilate_class_value" THEN input_pix = search
    ELSE BitAnd(ShiftRight(input_pix, search), L2QA_SINGLE_BIT) # 0

\* for (row = 0; row < nrows; row++) { start_row = row - distance;
\* end_row = row + distance; row_index = row * ncols; for (col = 0; ...
LoopRow ==
    /\ pc = "row"
    /\ IF scratch.row < nlines
       THEN /\ scratch' = [scratch EXCEPT !.start_row = Wrap(scratch.row - distance),
                                          !.end_row = Wrap(scratch.row + distance),
                                          !.row_index = IntIndex(scratch.row * nsamps),
                                          !.col = 0]
            /\ pc' = "col"
       ELSE pc' = "return" /\ scratch' = scratch
    /\ UNCHANGED <<tool, nlines, nsamps, distance, search, idata, ddata, phase, passes, qa_category, results, stores, storer, step, status, trace, disk, args, cursor, build>>

\* The head of the column loop: the loop ends and row++, or output_index is
\* computed and the pixel read; a fill pixel is stored (both engines) and a
\* pixel with the search value is stored (quick check of class_dilation.c
\* lines 70-75), else the window scan starts.  An index outside the raster
\* is a read outside the buffer.
LoopCol ==
    /\ pc = "col"
    /\ LET output_index == IntIndex(scratch.row_index + scratch.col) IN
       IF ~(scratch.col < nsamps)
       THEN /\ scratch' = [scratch EXCEPT !.row = Wrap(scratch.row + 1)]
            /\ pc' = "row"
            /\ ddata' = ddata
       ELSE IF ~InRaster(output_index)
       THEN /\ pc' = "undefined"
            /\ scratch' = [scratch EXCEPT !.output_index = output_index]
            /\ ddata' = ddata
       ELSE IF (tool = "dilate_class_value" /\ idata[output_index] = CLASS_L2QA_FILL)
               \/ (tool = "dilate_pixel_qa" /\ pixel_qa_is_fill(idata[output_index]))
               \/ (tool = "dilate_class_value" /\ idata[output_index] = search)
       THEN /\ ddata' = [ddata EXCEPT ![output_index] = idata[output_index]]
            /\ scratch' = [scratch EXCEPT !.output_index = output_index,
                                          !.col = Wrap(scratch.col + 1)]
            /\ pc' = "col"
       ELSE /\ scratch' = [scratch EXCEPT !.output_index = output_index,
                                          !.start_col = Wrap(scratch.col - distance),
                                          !.end_col = Wrap(scratch.col + distance),
                                          !.found = FALSE,
                                          !.window_row = scratch.start_row]
            /\ pc' = "window_row"
            /\ ddata' = ddata
    /\ UNCHANGED <<tool, nlines, nsamps, distance, search, idata, phase, passes, qa_category, results, stores, storer, step, status, trace, disk, args, cursor, build>>

\* The head of the window row loop: window_row < end_row + 1 && !found, then
\* the bounds test with its continue, window_row_index and the start of the
\* window column loop.
LoopWindowRow ==
    /\ pc = "window_row"
    /\ IF ~(scratch.window_row < LoopLimit(scratch.end_row) /\ ~scratch.found)
       THEN pc' = "store" /\ scratch' = scratch
       ELSE IF scratch.window_row < 0 \/ scratch.window_row > (nlines - 1)
       THEN /\ scratch' = [scratch EXCEPT !.window_row = Wrap(scratch.window_row + 1)]
            /\ pc' = "window_row"
       ELSE /\ scratch' = [scratch EXCEPT !.window_row_index = IntIndex(scratch.window_row * nsamps),
                                          !.window_col = scratch.start_col]
            /\ pc' = "window_col"
    /\ UNCHANGED <<tool, nlines, nsamps, distance, search, idata, ddata, phase, passes, qa_category, results, stores, storer, step, status, trace, disk, args, cursor, build>>

\* The head and the body of the window column loop: window_col < end_col + 1,
\* the bounds test with its continue, input_index and the test of the cell;
\* a match sets found and breaks.  The end of the loop and the break go on
\* to window_row++.
LoopWindowCol ==
    /\ pc = "window_col"
    /\ LET input_index == IntIndex(scratch.window_row_index + scratch.window_col) IN
       IF ~(scratch.window_col < LoopLimit(scratch.end_col))
       THEN /\ scratch' = [scratch EXCEPT !.window_row = Wrap(scratch.window_row + 1)]
            /\ pc' = "window_row"
       ELSE IF scratch.window_col < 0 \/ scratch.window_col > (nsamps - 1)
       THEN /\ scratch' = [scratch EXCEPT !.window_col = Wrap(scratch.window_col + 1)]
            /\ pc' = "window_col"
       ELSE IF ~InRaster(input_index)
       THEN /\ scratch' = [scratch EXCEPT !.input_index = input_index]
            /\ pc' = "undefined"
       ELSE IF LoopMatch(idata[input_index])
       THEN /\ scratch' = [scratch EXCEPT !.input_index = input_index,
                                          !.found = TRUE,
                                          !.window_row = Wrap(scratch.window_row + 1)]
            /\ pc' = "window_row"
       ELSE /\ scratch' = [scratch EXCEPT !.input_index = input_index,
                                          !.window_col = Wrap(scratch.window_col + 1)]
            /\ pc' = "window_col"
    /\ UNCHANGED <<tool, nlines, nsamps, distance, search, idata, ddata, phase, passes, qa_category, results, stores, storer, step, status, trace, disk, args, cursor, build>>

\* After the window loops: the store of the pixel (class_dilation.c lines
\* 110-113, pixel_qa_dilation.c lines 126-139) and col++.
LoopStore ==
    /\ pc = "store"
    /\ \E indeterminate \in Indeterminate :
          ddata' = [ddata EXCEPT ![scratch.output_index] =
                       IF ~scratch.found THEN idata[scratch.output_index]
                       ELSE IF tool = "dilate_class_value" THEN search
                       ELSE QaFoundValue(idata[scratch.output_index], UserBitMask(search),
                                         CleaningBitMask(search, indeterminate))]
    /\ scratch' = [scratch EXCEPT !.col = Wrap(scratch.col + 1)]
    /\ pc' = "col"
    /\ UNCHANGED <<tool, nlines, nsamps, distance, search, idata, phase, passes, qa_category, results, stores, storer, step, status, trace, disk, args, cursor, build>>

NextLoops == LoopRow \/ LoopCol \/ LoopWindowRow \/ LoopWindowCol \/ LoopStore

SpecLoops == InitLoops /\ [][NextLoops]_vars

\* The engine runs in one thread that is never stopped for ever: a step
\* that can be taken is taken.
SpecLoopsFair == SpecLoops /\ WF_vars(NextLoops)

(***************************************************************************)
(* The pipeline: generate_pixel_qa writes the pixel QA band of a scene and *)
(* the dilate_pixel_qa tool then dilates the cloud bit of that band.       *)
(***************************************************************************)
\* The rasters of the pipeline have at most MaxPipePixels pixels.
MaxPipePixels == 3

\* Level-1 pixels of the pipeline: clear, fill, cloud with high confidence,
\* cloud with a high cloud shadow confidence, cloud shadow, snow/ice, fill
\* with the cloud bit, low cloud confidence.
PipeL1Values == {0, 1, 112, 400, 384, 1536, 17, 32}

InitPipeline ==
    /\ tool = "generate_pixel_qa"
    /\ nlines \in 1 .. MaxPipePixels
    /\ nsamps \in 1 .. MaxPipePixels
    /\ nlines * nsamps <= MaxPipePixels
    /\ distance \in 0 .. MaxDist
    /\ search = L2QA_CLOUD
    /\ idata \in [0 .. nlines * nsamps - 1 -> PipeL1Values]
    /\ ddata = Calloc(nlines * nsamps)
    /\ phase = "read"
    /\ passes = 0
    /\ qa_category \in QaCategories
    /\ results = <<>>
    /\ ParIdle
    /\ RunIdle

\* generate_pixel_qa.c lines 76-220: the band written for the scene
PipeGenerate ==
    /\ tool = "generate_pixel_qa"
    /\ phase = "read"
    /\ ddata' = generate_pixel_qa(idata, qa_category, nlines, nsamps)
    /\ phase' = "generated"
    /\ UNCHANGED <<tool, nlines, nsamps, distance, search, idata, passes, qa_category, results, pc, scratch, stores, storer, step, status, trace, disk, args, cursor, build>>

\* tools/dilate_pixel_qa.c main, lines 259-291: the tool reads the band the
\* generator wrote (kept in results), dilates it and writes it back.
PipeDilate ==
    /\ tool = "generate_pixel_qa"
    /\ phase = "generated"
    /\ tool' = "dilate_pixel_qa"
    /\ results' = ddata
    /\ \E indeterminate \in Indeterminate :
          ddata' = dilate_pixel_qa(ddata, search, distance, nlines, nsamps,
                                   Calloc(nlines * nsamps), indeterminate)
    /\ phase' = "dilated"
    /\ UNCHANGED <<nlines, nsamps, distance, search, idata, passes, qa_category, pc, scratch, stores, storer, step, status, trace, disk, args, cursor, build>>

NextPipeline == PipeGenerate \/ PipeDilate

SpecPipeline == InitPipeline /\ [][NextPipeline]_vars

(***************************************************************************)
(* Two runs of dilate_class_value in a row, the second on the band the     *)
(* first wrote, and one run on the same band with the sum of the radii.    *)
(***************************************************************************)
\* The rasters of the composed runs have at most MaxComposePixels pixels.
MaxComposePixels == 4
\* Each of the two radii is at most MaxRadius.
MaxRadius == 2

\* Pixel values of the rasters of the composed runs
ComposeValues == {CLASS_L2QA_CLEAR, CLASS_L2QA_CLOUD, CLASS_L2QA_FILL}

\* No run has been made yet.
NoRuns == [first |-> <<>>, two_step |-> <<>>, one_step |-> <<>>]

InitCompose ==
    /\ tool = "dilate_class_value"
    /\ nlines \in 1 .. MaxComposePixels
    /\ nsamps \in 1 .. MaxComposePixels
    /\ nlines * nsamps <= MaxComposePixels
    /\ distance = 0
    /\ search = CLASS_L2QA_CLOUD
    /\ idata \in [0 .. nlines * nsamps - 1 -> ComposeValues]
    /\ ddata = Calloc(nlines * nsamps)
    /\ phase = "read"
    /\ passes = 0
    /\ qa_category = "none"
    /\ results = NoRuns
    /\ ParIdle
    /\ step = "none" /\ status = "none" /\ trace = <<>>
    /\ disk = <<>> /\ cursor = 0 /\ build = "none"
    /\ args \in [d1 : 0 .. MaxRadius, d2 : 0 .. MaxRadius]

\* tools/dilate_class_value.c main, line 273: the run with --distance d1
ComposeFirst ==
    /\ results.first = <<>>
    /\ distance' = args.d1
    /\ ddata' = dilate_class_value(idata, search, args.d1, nlines, nsamps, Calloc(nlines * nsamps))
    /\ results' = [results EXCEPT !.first = ddata']
    /\ passes' = passes + 1
    /\ phase' = "dilated"
    /\ UNCHANGED <<tool, nlines, nsamps, search, idata, qa_category, pc, scratch, stores, storer, step, status, trace, disk, args, cursor, build>>

\* The run with --distance d2 on the band the first run wrote
ComposeSecond ==
    /\ results.first # <<>>
    /\ results.two_step = <<>>
    /\ distance' = args.d2
    /\ ddata' = dilate_class_value(results.first, search, args.d2, nlines, nsamps, Calloc(nlines * nsamps))
    /\ results' = [results EXCEPT !.two_step = ddata']
    /\ passes' = passes + 1
    /\ phase' = "dilated"
    /\ UNCHANGED <<tool, nlines, nsamps, search, idata, qa_category, pc, scratch, stores, storer, step, status, trace, disk, args, cursor, build>>

\* The run with --distance d1 + d2 on the band as it was
ComposeOneStep ==
    /\ results.one_step = <<>>
    /\ distance' = args.d1 + args.d2
    /\ ddata' = dilate_class_value(idata, search, args.d1 + args.d2, nlines, nsamps, Calloc(nlines * nsamps))
    /\ results' = [results EXCEPT !.one_step = ddata']
    /\ passes' = passes + 1
    /\ phase' = "dilated"
    /\ UNCHANGED <<tool, nlines, nsamps, search, idata, qa_category, pc, scratch, stores, storer, step, status, trace, disk, args, cursor, build>>

NextCompose == ComposeFirst \/ ComposeSecond \/ ComposeOneStep

SpecCompose == InitCompose /\ [][NextCompose]_vars

(***************************************************************************)
(* Vocabulary of the properties.  These definitions state what a dilation  *)
(* is meant to produce; they do not use the operators that model the code. *)
(***************************************************************************)
Pixels == 0 .. nlines * nsamps - 1
RowOf(i) == i \div nsamps
ColOf(i) == i % nsamps
Abs(x) == IF x < 0 THEN -x ELSE x

\* the pixel value is fill in the encoding of the tool
IsFill(x) == IF tool = "dilate_class_value" THEN x = CLASS_L2QA_FILL ELSE x % 2 = 1
\* the pixel value matches the target: equals it (scalar), has the bit (bit-packed)
Matches(x) == IF tool = "dilate_class_value" THEN x = search ELSE HasBit(x, search)
\* pixel j lies in the raster within Chebyshev distance distance of pixel i
InWindow(i, j) == Abs(RowOf(j) - RowOf(i)) <= distance /\ Abs(ColOf(j) - ColOf(i)) <= distance
\* some in-bounds cell of the window of pixel i matches in the input
NearMatch(i) == \E j \in Pixels : InWindow(i, j) /\ Matches(idata[j])
\* x with bits clear and cloud shadow cleared
WithoutClearAndShadow(x) == x - (IF HasBit(x, L2QA_CLEAR) THEN 2 ELSE 0) - (IF HasBit(x, L2QA_CLD_SHADOW) THEN 8 ELSE 0)

ClassDilated == tool = "dilate_class_value" /\ phase = "dilated"
QaDilated == tool = "dilate_pixel_qa" /\ phase = "dilated"

\* C1: dilate_class_value gives a non-fill pixel the search value exactly when
\* some in-bounds cell within Chebyshev distance d holds the search value in
\* the input, and otherwise leaves it as in the input; cells outside the
\* raster are skipped and never wrap into a neighbouring row.
C1_ClassWindowContract ==
    ClassDilated =>
        \A i \in Pixels : ~IsFill(idata[i]) =>
            /\ (ddata[i] = search) <=> NearMatch(i)
            /\ ~NearMatch(i) => ddata[i] = idata[i]

\* A 2x3 band with d = 1 whose cell (1,0) holds the search value: (0,0) takes
\* it, (0,2) whose window would wrap onto (1,0) does not.
C1_Witness ==
    /\ ClassDilated /\ nlines = 2 /\ nsamps = 3 /\ distance = 1
    /\ idata[3] = search /\ idata[0] # search /\ ddata[0] = search
    /\ ~IsFill(idata[2]) /\ ddata[2] # search

\* C2: dilate_pixel_qa sets the search bit of a non-fill pixel exactly when
\* some in-bounds cell within Chebyshev distance d has the bit in the input;
\* when none has, the pixel is copied unchanged.
C2_QaWindowContract ==
    QaDilated =>
        \A i \in Pixels : ~IsFill(idata[i]) =>
            /\ HasBit(ddata[i], search) <=> NearMatch(i)
            /\ ~NearMatch(i) => ddata[i] = idata[i]

\* As for C1, on a bit-packed band.
C2_Witness ==
    /\ QaDilated /\ nlines = 2 /\ nsamps = 3 /\ distance = 1
    /\ HasBit(idata[3], search) /\ ~HasBit(idata[0], search) /\ HasBit(ddata[0], search)
    /\ ~IsFill(idata[2]) /\ ~HasBit(ddata[2], search) /\ ddata[2] = idata[2]

\* C3: fill invariance: every pixel that is fill in the input has the same
\* value in the output, in both engines.
C3_FillInvariance ==
    phase = "dilated" => \A i \in Pixels : IsFill(idata[i]) => ddata[i] = idata[i]

\* A fill pixel that does not match, next to a non-fill pixel that matches,
\* with d >= 1, while another pixel did change.
C3_Witness ==
    /\ phase = "dilated" /\ distance >= 1
    /\ \E i, j \in Pixels :
          /\ IsFill(idata[i]) /\ ~Matches(idata[i])
          /\ InWindow(i, j) /\ Matches(idata[j]) /\ ~IsFill(idata[j])
    /\ ddata # idata

\* C4: fill pixels are inert on read: when the target occurs in the input on
\* fill pixels only, the output equals the input.
C4_FillInertOnRead ==
    (phase = "dilated" /\ \A j \in Pixels : Matches(idata[j]) => IsFill(idata[j]))
        => ddata = idata

\* C5: monotonic growth: a pixel that matches the target in the input still
\* matches it in the output.
C5_MonotonicGrowth ==
    phase = "dilated" => \A i \in Pixels : Matches(idata[i]) => Matches(ddata[i])

\* A non-fill pixel with the cloud bit that the cloud dilation rewrote, and
\* a class pixel holding the search value.
C5_Witness ==
    \/ /\ QaDilated /\ search = L2QA_CLOUD
       /\ \E i \in Pixels : ~IsFill(idata[i]) /\ Matches(idata[i]) /\ ddata[i] # idata[i]
    \/ /\ ClassDilated
       /\ \E i \in Pixels : ~IsFill(idata[i]) /\ Matches(idata[i])

\* C6: bounded growth: a pixel that does not match in the input matches in
\* the output only if an in-bounds cell within Chebyshev distance d matched
\* in the input.
C6_BoundedGrowth ==
    phase = "dilated" =>
        \A i \in Pixels : (~Matches(idata[i]) /\ Matches(ddata[i])) => NearMatch(i)

\* One pixel became matching while another one, out of reach of every
\* match, did not.
C6_Witness ==
    /\ phase = "dilated" /\ distance >= 1
    /\ \E i \in Pixels : ~Matches(idata[i]) /\ Matches(ddata[i])
    /\ \E i \in Pixels : ~IsFill(idata[i]) /\ ~NearMatch(i) /\ ~Matches(ddata[i])

\* C7: with radius 0 dilate_class_value returns the input raster.
C7_ClassRadiusZeroIdentity ==
    (ClassDilated /\ distance = 0) => ddata = idata

\* Radius 0 on a band holding the search value next to another class.
C7_Witness ==
    /\ ClassDilated /\ distance = 0 /\ nlines * nsamps >= 2
    /\ \E i, j \in Pixels : idata[i] = search /\ ~IsFill(idata[j]) /\ idata[j] # search

\* C8 as stated: with radius 0 dilate_pixel_qa returns the input raster, for
\* every search bit including the cloud bit.
C8_QaRadiusZeroIdentity ==
    (QaDilated /\ distance = 0) => ddata = idata

\* C8 as amended: with radius 0 dilate_pixel_qa returns the input raster for
\* every search bit but the cloud bit; for the cloud bit a non-fill pixel
\* carrying the cloud bit loses its clear and cloud shadow bits, and every
\* other pixel is unchanged.
C8_QaRadiusZeroAmended ==
    (QaDilated /\ distance = 0) =>
        \A i \in Pixels :
            ddata[i] = IF search = L2QA_CLOUD /\ ~IsFill(idata[i]) /\ HasBit(idata[i], L2QA_CLOUD)
                       THEN WithoutClearAndShadow(idata[i])
                       ELSE idata[i]

\* Radius 0: a cloud dilation that changed a pixel, or a dilation of another
\* bit on a band where that bit is set on a non-fill pixel.
C8_Witness ==
    /\ QaDilated /\ distance = 0
    /\ \/ search = L2QA_CLOUD /\ ddata # idata
       \/ search # L2QA_CLOUD /\ \E i \in Pixels : ~IsFill(idata[i]) /\ Matches(idata[i])

\* C9 as stated: after a dilation of the cloud bit every output pixel with
\* the cloud bit has the clear and cloud shadow bits both 0.
C9_CloudMutualExclusion ==
    (QaDilated /\ search = L2QA_CLOUD) =>
        \A i \in Pixels : HasBit(ddata[i], L2QA_CLOUD) =>
            ~HasBit(ddata[i], L2QA_CLEAR) /\ ~HasBit(ddata[i], L2QA_CLD_SHADOW)

\* C9 as amended: after a dilation of the cloud bit every non-fill output
\* pixel with the cloud bit has the clear and cloud shadow bits both 0.
C9_CloudMutualExclusionNonFill ==
    (QaDilated /\ search = L2QA_CLOUD) =>
        \A i \in Pixels : (~IsFill(ddata[i]) /\ HasBit(ddata[i], L2QA_CLOUD)) =>
            ~HasBit(ddata[i], L2QA_CLEAR) /\ ~HasBit(ddata[i], L2QA_CLD_SHADOW)

\* A clear + cloud shadow pixel that gained the cloud bit.
C9_Witness ==
    /\ QaDilated /\ search = L2QA_CLOUD
    /\ \E i \in Pixels :
          /\ ~IsFill(idata[i]) /\ ~HasBit(idata[i], L2QA_CLOUD)
          /\ HasBit(idata[i], L2QA_CLD_SHADOW) /\ HasBit(idata[i], L2QA_CLEAR)
          /\ HasBit(ddata[i], L2QA_CLOUD)

\* C10: repeated dilation only grows: in a run on a band that is itself the
\* result of a dilation with the same target and radius, every pixel that
\* matches in that band matches in the new result.
C10_RepeatedDilationGrows ==
    (phase = "dilated" /\ passes >= 1) =>
        \A i \in Pixels : Matches(idata[i]) => Matches(ddata[i])

\* A second run that grew the target further.
C10_Witness ==
    /\ phase = "dilated" /\ passes >= 1
    /\ \E i \in Pixels : ~IsFill(idata[i]) /\ Matches(idata[i])
    /\ \E i \in Pixels : ~Matches(idata[i]) /\ Matches(ddata[i])

\* C11: saturating radius: when d is at least max(nrows, ncols) and the
\* target occurs on at least one non-fill pixel of the input, every non-fill
\* pixel of the output carries the search value (the search bit), and every
\* fill pixel is as in the input; in both engines.
C11_SaturatingRadius ==
    (/\ phase = "dilated"
     /\ distance >= MaxSide
     /\ \E j \in Pixels : ~IsFill(idata[j]) /\ Matches(idata[j])) =>
        \A i \in Pixels :
            /\ ~IsFill(idata[i]) => Matches(ddata[i])
            /\ IsFill(idata[i]) => ddata[i] = idata[i]

\* A band of at least two lines and two samples with one non-fill target
\* pixel, a non-fill pixel without the target that gained it, and a fill
\* pixel, dilated with a radius that covers the band.
C11_Witness ==
    /\ phase = "dilated" /\ distance >= MaxSide /\ nlines >= 2 /\ nsamps >= 2
    /\ \E j \in Pixels : ~IsFill(idata[j]) /\ Matches(idata[j])
    /\ \E i \in Pixels : ~IsFill(idata[i]) /\ ~Matches(idata[i]) /\ Matches(ddata[i])
    /\ \E i \in Pixels : IsFill(idata[i]) /\ ddata[i] = idata[i]

(***************************************************************************)
(* Vocabulary of the properties of the generators: the fields of a         *)
(* Level-1 QA value by position, without the accessors that model the code.*)
(***************************************************************************)
\* bit k of x is set
BitOf(x, k) == (x \div (2 ^ k)) % 2 = 1
\* the two-bit field of x whose low bit is bit k
FieldOf(x, k) == (x \div (2 ^ k)) % 4
L1Fill(x) == BitOf(x, 0)
L1Terrain(x) == BitOf(x, 1)
L1Cloud(x) == BitOf(x, 4)
L1CloudConf(x) == FieldOf(x, 5)
L1ShadowConf(x) == FieldOf(x, 7)
L1SnowIceConf(x) == FieldOf(x, 9)
L1CirrusConf(x) == FieldOf(x, 11)

Level2QaGenerated == tool = "generate_level2_qa" /\ phase = "generated"
PixelQaGenerated == tool = "generate_pixel_qa" /\ phase = "generated"
Level1Tested == tool = "test_read_level1_qa" /\ phase = "tested"
Level2Tested == tool = "test_read_level2_qa" /\ phase = "tested"

\* C15: generate_level2_qa gives every pixel exactly one class by first
\* match: fill (255) if the Level-1 pixel is fill; else cloud (4) if its
\* cloud flag is set; else snow (3) if its snow/ice confidence is 3; else
\* cloud shadow (2) if its cloud shadow confidence is 3; else clear (0).
C15_FirstMatchPriority ==
    Level2QaGenerated =>
        \A i \in Pixels :
            ddata[i] = (IF L1Fill(idata[i]) THEN 255
                        ELSE IF L1Cloud(idata[i]) THEN 4
                        ELSE IF L1SnowIceConf(idata[i]) = 3 THEN 3
                        ELSE IF L1ShadowConf(idata[i]) = 3 THEN 2
                        ELSE 0)

\* A non-fill pixel that is cloud, high-confidence snow/ice and
\* high-confidence cloud shadow at once, classed as cloud.
C15_Witness ==
    /\ Level2QaGenerated
    /\ \E i \in Pixels :
          /\ ~L1Fill(idata[i]) /\ L1Cloud(idata[i])
          /\ L1SnowIceConf(idata[i]) = 3 /\ L1ShadowConf(idata[i]) = 3
          /\ ddata[i] = 4

\* C16: generate_pixel_qa gives a Level-1 fill pixel exactly the value 1
\* (fill bit only), whatever the other Level-1 bits and the sensor family.
C16_FillPixelIsOne ==
    PixelQaGenerated =>
        \A i \in Pixels : L1Fill(idata[i]) => ddata[i] = 1

\* A Landsat 8 fill pixel that also carries the cloud flag, the terrain
\* flag and high confidences, generated as 1.
C16_Witness ==
    /\ PixelQaGenerated /\ qa_category = "LEVEL1_L8"
    /\ \E i \in Pixels :
          /\ L1Fill(idata[i]) /\ L1Cloud(idata[i]) /\ L1Terrain(idata[i])
          /\ L1CloudConf(idata[i]) = 3 /\ L1CirrusConf(idata[i]) = 3
          /\ L1ShadowConf(idata[i]) = 3 /\ L1SnowIceConf(idata[i]) = 3
          /\ ddata[i] = 1

\* C17: in the generated pixel QA the clear bit is set exactly when the
\* pixel is not fill, its cloud shadow confidence is not high, its snow/ice
\* confidence is not high, its cloud flag is false and its cloud confidence
\* is not high; low or moderate cloud confidence, cirrus confidence and
\* terrain occlusion never clear it.
C17_ClearBit ==
    PixelQaGenerated =>
        \A i \in Pixels :
            BitOf(ddata[i], L2QA_CLEAR) <=>
                (/\ ~L1Fill(idata[i])
                 /\ L1ShadowConf(idata[i]) # 3
                 /\ L1SnowIceConf(idata[i]) # 3
                 /\ ~L1Cloud(idata[i])
                 /\ L1CloudConf(idata[i]) # 3)

\* A Landsat 8 pixel with moderate cloud confidence, high cirrus confidence
\* and terrain occlusion that keeps the clear bit.
C17_Witness ==
    /\ PixelQaGenerated /\ qa_category = "LEVEL1_L8"
    /\ \E i \in Pixels :
          /\ L1CloudConf(idata[i]) = 2 /\ L1CirrusConf(idata[i]) = 3 /\ L1Terrain(idata[i])
          /\ BitOf(ddata[i], L2QA_CLEAR)
          /\ BitOf(ddata[i], L2QA_CLOUD_CONF2) /\ BitOf(ddata[i], L2QA_TERRAIN_OCCL)

\* C18: for a non-fill pixel, pixel_qa_cloud_confidence of the output equals
\* level1_qa_cloud_confidence of the input; for Landsat 8 input
\* pixel_qa_cirrus_confidence of the output equals
\* level1_qa_cirrus_confidence of the input and the terrain occlusion bit
\* equals the Level-1 terrain flag; for the legacy family bits 8, 9 and 10
\* of the output are 0.
C18_ConfidenceCopy ==
    PixelQaGenerated =>
        \A i \in Pixels : ~L1Fill(idata[i]) =>
            /\ pixel_qa_cloud_confidence(ddata[i]) = level1_qa_cloud_confidence(idata[i])
            /\ pixel_qa_cloud_confidence(ddata[i]) = L1CloudConf(idata[i])
            /\ qa_category = "LEVEL1_L8" =>
                  /\ pixel_qa_cirrus_confidence(ddata[i]) = level1_qa_cirrus_confidence(idata[i])
                  /\ pixel_qa_cirrus_confidence(ddata[i]) = L1CirrusConf(idata[i])
                  /\ pixel_qa_is_terrain_occluded(ddata[i]) <=> level1_qa_is_terrain_occluded(idata[i])
                  /\ BitOf(ddata[i], 10) <=> L1Terrain(idata[i])
            /\ qa_category = "LEVEL1_L457" =>
                  ~BitOf(ddata[i], 8) /\ ~BitOf(ddata[i], 9) /\ ~BitOf(ddata[i], 10)

\* A legacy pixel whose Level-1 cirrus and terrain bits are set and whose
\* cloud confidence is low: the confidence is copied, bits 8-10 stay 0.
C18_Witness ==
    /\ PixelQaGenerated /\ qa_category = "LEVEL1_L457"
    /\ \E i \in Pixels :
          /\ ~L1Fill(idata[i]) /\ L1CloudConf(idata[i]) = 1
          /\ L1CirrusConf(idata[i]) = 2 /\ L1Terrain(idata[i])
          /\ pixel_qa_cloud_confidence(ddata[i]) = 1
          /\ pixel_qa_cirrus_confidence(ddata[i]) = 0

\* C19: the Level-1 accessors are total and field-local: each confidence
\* accessor returns a value in 0..3 that depends only on the two bits of its
\* own field, k when the field holds k; on the value with only the cloud bit
\* set level1_qa_is_cloud is true and every confidence accessor returns 0.
C19_Level1AccessorsFieldLocal ==
    Level1Tested =>
        /\ results.cloud_confidence \in 0 .. 3
        /\ results.cloud_shadow_confidence \in 0 .. 3
        /\ results.snow_ice_confidence \in 0 .. 3
        /\ results.cirrus_confidence \in 0 .. 3
        /\ results.cloud_confidence = L1CloudConf(idata[0])
        /\ results.cloud_shadow_confidence = L1ShadowConf(idata[0])
        /\ results.snow_ice_confidence = L1SnowIceConf(idata[0])
        /\ results.cirrus_confidence = L1CirrusConf(idata[0])
        /\ idata[0] = 16 =>
              /\ results.is_cloud
              /\ results.cloud_confidence = 0 /\ results.cloud_shadow_confidence = 0
              /\ results.snow_ice_confidence = 0 /\ results.cirrus_confidence = 0

\* The accessors applied to the value whose bits are all set but the high
\* bit of the cloud confidence and the low bit of the cirrus confidence.
C19_Witness ==
    /\ Level1Tested /\ idata[0] = 65535 - 64 - 2048
    /\ results.cloud_confidence = 1 /\ results.cirrus_confidence = 2
    /\ results.cloud_shadow_confidence = 3 /\ results.snow_ice_confidence = 3

\* C20: every LEDAPS cloud-QA accessor (DDV, cloud, cloud shadow, adjacent
\* cloud, snow, land/water) and the LaSRC accessors of fill, valid aerosol
\* retrieval, aerosol interpolation and water return true on the value of
\* their LEDAPS_<FLAG>_BIT / LASRC_<FLAG>_BIT constant and false on 0.
C20_AccessorsOnBitConstants ==
    Level2Tested =>
        /\ idata[0] = LEDAPS_DDV_BIT => results.ledaps_ddv
        /\ idata[0] = LEDAPS_CLOUD_BIT => results.ledaps_cloud
        /\ idata[0] = LEDAPS_CLOUD_SHADOW_BIT => results.ledaps_cloud_shadow
        /\ idata[0] = LEDAPS_ADJ_CLOUD_BIT => results.ledaps_adj_cloud
        /\ idata[0] = LEDAPS_SNOW_BIT => results.ledaps_snow
        /\ idata[0] = LEDAPS_LAND_WATER_BIT => results.ledaps_land_water
        /\ idata[0] = LASRC_FILL_BIT => results.lasrc_fill
        /\ idata[0] = LASRC_VALID_AEROSOL_RET_BIT => results.lasrc_valid_aerosol_retrieval
        /\ idata[0] = LASRC_AEROSOL_INTERP_BIT => results.lasrc_aerosol_interp
        /\ idata[0] = LASRC_WATER_BIT => results.lasrc_water
        /\ idata[0] = 0 =>
              /\ ~results.ledaps_ddv /\ ~results.ledaps_cloud /\ ~results.ledaps_cloud_shadow
              /\ ~results.ledaps_adj_cloud /\ ~results.ledaps_snow /\ ~results.ledaps_land_water
              /\ ~results.lasrc_fill /\ ~results.lasrc_valid_aerosol_retrieval
              /\ ~results.lasrc_aerosol_interp /\ ~results.lasrc_water

(***************************************************************************)
(* Vocabulary of the properties of the row-parallel engines.               *)
(***************************************************************************)
ParReturned == pc # <<>> /\ phase = "dilated"
\* what the engine stores into a zeroed buffer when it runs row after row
SequentialOutput ==
    IF tool = "dilate_class_value"
    THEN dilate_class_value(idata, search, distance, nlines, nsamps, Calloc(nlines * nsamps))
    ELSE dilate_pixel_qa(idata, search, distance, nlines, nsamps, Calloc(nlines * nsamps), 0)

\* C12: dilate_pixel_qa is safe under row parallelism with no
\* synchronization: whatever the interleaving of the workers' steps, no
\* mutable scratch variable is shared between workers and the output
\* raster at return equals the one of the sequential row loop.
C12_QaParallelEqualsSequential ==
    (pc # <<>> /\ tool = "dilate_pixel_qa") =>
        /\ scratch[SharedSlot] = ScratchInit
        /\ ParReturned => ddata = SequentialOutput

\* C13: dilate_class_value is safe under row parallelism with no
\* synchronization: whatever the interleaving of the workers' steps, the
\* output raster at return equals the one of the sequential row loop.
C13_ClassParallelEqualsSequential ==
    (ParReturned /\ tool = "dilate_class_value") => ddata = SequentialOutput

\* Two workers have returned from a band in which a row without the search
\* value took it from the other row.
C13_Witness ==
    /\ ParReturned /\ tool = "dilate_class_value" /\ nlines = 2 /\ nsamps = 2
    /\ idata[0] = search /\ idata[2] = CLASS_L2QA_CLEAR /\ idata[3] = CLASS_L2QA_FILL
    /\ ddata[2] = search /\ ddata[3] = CLASS_L2QA_FILL

\* C14: in both engines the input buffer is never written, and every
\* output index in [0, nrows*ncols) is written exactly once, by the worker
\* that owns its row; no worker writes an output cell of another row.
C14_EveryCellStoredOnce ==
    pc # <<>> =>
        /\ \A i \in Pixels : stores[i] <= 1 /\ storer[i] \subseteq {RowOf(i)}
        /\ ParReturned => \A i \in Pixels : stores[i] = 1 /\ storer[i] = {RowOf(i)}

\* C14 as amended, on the stores: every output cell is stored to only by
\* the worker of its row; at return every cell has been stored to: once
\* by dilate_class_value, once by dilate_pixel_qa when the pixel is fill or
\* its window scan found no match, twice by dilate_pixel_qa when the scan
\* found a match (the store of the dilated value, then the cleaning).
C14_StoresByOwner ==
    pc # <<>> =>
        /\ \A i \in Pixels : stores[i] <= 2 /\ storer[i] \subseteq {RowOf(i)}
        /\ ParReturned =>
              \A i \in Pixels :
                  /\ storer[i] = {RowOf(i)}
                  /\ stores[i] \in {1, 2}
                  /\ tool = "dilate_class_value" => stores[i] = 1
                  /\ IsFill(idata[i]) => stores[i] = 1
                  /\ ~Matches(ddata[i]) => stores[i] = 1
                  /\ ddata[i] # idata[i] => stores[i] = (IF tool = "dilate_pixel_qa" THEN 2 ELSE 1)

\* C14 as amended: the stores are as in C14_StoresByOwner and no step
\* changes the input buffer.
C14_FrameAmended == [](C14_StoresByOwner) /\ [][idata' = idata]_vars

\* Both workers of a 2x2 bit-packed band have returned; a clear pixel that
\* gained the cloud bit was stored to twice, a fill pixel once.
C14_Witness ==
    /\ ParReturned /\ tool = "dilate_pixel_qa" /\ nlines = 2 /\ nsamps = 2
    /\ \E i \in Pixels : idata[i] = 2 /\ ddata[i] = 32 /\ stores[i] = 2
    /\ \E i \in Pixels : IsFill(idata[i]) /\ stores[i] = 1

\* the value x with bit b set, by arithmetic
WithBit(x, b) == IF BitOf(x, b) THEN x ELSE x + 2 ^ b

\* C25: write policy of dilate_pixel_qa on a non-fill pixel for which a match
\* was found: for a search bit b other than the cloud bit the output is the
\* input with bit b set and every other bit unchanged; for the cloud bit it
\* is the input with bit 5 set and bits 1 (clear) and 3 (cloud shadow)
\* cleared, the remaining bits unchanged; the same for a pixel that already
\* had the cloud bit in the input.
C25_WritePolicy ==
    QaDilated =>
        \A i \in Pixels : (~IsFill(idata[i]) /\ NearMatch(i)) =>
            ddata[i] = IF search = L2QA_CLOUD
                       THEN WithoutClearAndShadow(WithBit(idata[i], 5))
                       ELSE WithBit(idata[i], search)

\* A cloud dilation on a band with a clear + cloud pixel, stored as cloud
\* only, next to a clear + cloud shadow pixel stored as cloud only.
C25_Witness ==
    /\ QaDilated /\ search = L2QA_CLOUD /\ distance = 1
    /\ \E i, j \in Pixels :
          /\ idata[i] = 34 /\ ddata[i] = 32
          /\ idata[j] = 10 /\ ddata[j] = 32

\* The reference dilation of C26: no fast path, and the decision taken after
\* every cell of the (2d+1) x (2d+1) window that lies inside the raster has
\* been looked at (the number of matching cells is counted).
RefMatches(i) == Cardinality({j \in Pixels : InWindow(i, j) /\ idata[j] = search})
RefClassPixel(i) ==
    IF idata[i] = 255 THEN 255
    ELSE IF RefMatches(i) > 0 THEN search
    ELSE idata[i]

\* C26: the scalar fast path and the short-circuit scan are pure
\* optimizations: dilate_class_value produces the output of a reference
\* version without fast path that scans every in-bounds cell of the window
\* before deciding.
C26_FastPathEquivalence ==
    ClassDilated => \A i \in Pixels : ddata[i] = RefClassPixel(i)

\* A band on which both optimizations were taken: a pixel holding the search
\* value (fast path) and a pixel whose window has two matching cells
\* (short-circuit at the first).
C26_Witness ==
    /\ ClassDilated /\ distance = 1
    /\ \E i \in Pixels : idata[i] = search /\ ddata[i] = search
    /\ \E i \in Pixels : idata[i] = CLASS_L2QA_CLEAR /\ RefMatches(i) >= 2 /\ ddata[i] = search

(***************************************************************************)
(* Claims on the runs of the programs, under SpecRun.                      *)
(***************************************************************************)
\* The steps that ran are the first steps of the program, in program order,
\* each once.
InProgramOrder == Len(trace) <= Len(Steps) /\ \A k \in 1 .. Len(trace) : trace[k].step = Steps[k]
\* Every step of the program ran and succeeded.
EveryStepSucceeded ==
    /\ Len(trace) = Len(Steps)
    /\ \A k \in 1 .. Len(trace) : trace[k] = [step |-> Steps[k], ret |-> "SUCCESS"]
\* A step that failed is the last step that ran, and the exit status is
\* EXIT_FAILURE.
FailureEndsMain ==
    \A k \in 1 .. Len(trace) :
        trace[k].ret = "ERROR" => k = Len(trace) /\ status = "EXIT_FAILURE"

\* C21: in the two dilation tools a step that fails (argument parsing,
\* opening the band, allocating either buffer, reading, creating the
\* output, writing) is the last step executed and the exit status is
\* non-zero; the exit status is 0 only when every step, the write included,
\* succeeded.
C21_ExitStatus ==
    tool \in DilationTools =>
        /\ InProgramOrder
        /\ FailureEndsMain
        /\ status = "EXIT_SUCCESS" => EveryStepSucceeded

\* C21 as amended: the exit status is 0 only when every step succeeded, or
\* when --version was given: get_args then ends the program with
\* EXIT_SUCCESS in version(), before the band is opened.
C21_ExitStatusAmended ==
    tool \in DilationTools =>
        /\ InProgramOrder
        /\ FailureEndsMain
        /\ status = "EXIT_SUCCESS" =>
              \/ EveryStepSucceeded
              \/ args.flag = "version" /\ trace = <<[step |-> "get_args", ret |-> "exit"]>>
                    /\ ~disk.created

\* dilate_pixel_qa ran up to the write, which failed: the band file was
\* created and the exit status is EXIT_FAILURE.
C21_Witness ==
    /\ tool = "dilate_pixel_qa"
    /\ status = "EXIT_FAILURE"
    /\ Len(trace) = Len(ToolSteps)
    /\ trace[Len(trace)] = [step |-> "write", ret |-> "ERROR"]
    /\ disk.created

\* The positions of the trace at which the band write was invoked.
BandWrites == {k \in 1 .. Len(trace) : trace[k].step = "write"}
\* The band a generator is to produce from the Level-1 band on the disk.
GeneratedBand ==
    IF tool = "generate_pixel_qa"
    THEN generate_pixel_qa(disk.level1_qa, disk.category, disk.nlines, disk.nsamps)
    ELSE generate_level2_qa(disk.level1_qa, disk.nlines, disk.nsamps)

\* C22: in generate_pixel_qa and generate_level2_qa the band write is
\* invoked at most once per run, with the whole nlines x nsamps raster, and
\* only after every pixel has been classified and every earlier step (open,
\* allocate, read Level-1, create) succeeded.
C22_SingleWholeWrite ==
    tool \in Generators =>
        /\ Cardinality(BandWrites) <= 1
        /\ \A k \in BandWrites :
              /\ cursor = disk.nlines * disk.nsamps
              /\ DOMAIN ddata = 0 .. disk.nlines * disk.nsamps - 1
              /\ ddata = GeneratedBand
              /\ \A j \in 1 .. k - 1 : trace[j].ret = "SUCCESS"
              /\ {"open_level1_qa", "calloc_l1_qa", "read_level1_qa", "calloc_l2_qa", "create", "classify"}
                    \subseteq {trace[j].step : j \in 1 .. k - 1}
              /\ trace[k].ret = "SUCCESS" => disk.band = ddata

\* generate_pixel_qa wrote a band of two pixels, a fill and a cloud.
C22_Witness ==
    /\ tool = "generate_pixel_qa"
    /\ BandWrites # {}
    /\ \A k \in BandWrites : trace[k].ret = "SUCCESS"
    /\ disk.nlines * disk.nsamps = 2
    /\ disk.band = ddata
    /\ ddata[0] = 1
    /\ BitOf(ddata[1], L2QA_CLOUD)

\* The collaborator failures of a generator: the Level-1 band is not found
\* or not readable, band 1 is missing from the XML or differs in size, the
\* ENVI header or the metadata fails.
CollaboratorFailures ==
    {"open_level1_qa", "read_level1_qa", "parse_metadata", "find_b1", "check_size",
     "allocate_band_metadata", "allocate_bitmap_metadata", "create_envi_struct",
     "write_envi_hdr", "append_metadata"}
\* The run returned ERROR for a collaborator failure.
CollaboratorError ==
    /\ status = "ERROR"
    /\ trace # <<>>
    /\ trace[Len(trace)].step \in CollaboratorFailures
\* The XML names the band of the generator.
MetadataAppended ==
    \E k \in 1 .. Len(disk.xml) : disk.xml[k].name \in {"pixel_qa", "level2_qa"}

\* C29: when generate_pixel_qa returns ERROR for a collaborator failure, no
\* pixel-QA band file has been created or written by that run, and the XML
\* metadata has not been appended.
C29_NoProductOnError ==
    (tool = "generate_pixel_qa" /\ CollaboratorError) =>
        ~disk.created /\ disk.band = <<>> /\ ~MetadataAppended

\* The part of C29 on the XML: it is never appended to by a run that
\* returns ERROR.
C29_XmlUntouchedOnError ==
    (tool = "generate_pixel_qa" /\ status = "ERROR") => ~MetadataAppended

\* C30: in the dilate_pixel_qa tool --bit and --distance are stored as 8-bit
\* unsigned numbers: for n >= 0 the value handed to dilate_pixel_qa is
\* n mod 256, the run is rejected as missing a required argument exactly
\* when n mod 256 = 255, and a number from 0 to 254 is passed unchanged.
C30_EightBitArguments ==
    (/\ tool = "dilate_pixel_qa"
     /\ args.flag = "" /\ args.xml
     /\ args.search # NoOption /\ args.distance # NoOption
     /\ trace # <<>>) =>
        /\ trace[1].ret = "ERROR" <=> (args.search % 256 = 255 \/ args.distance % 256 = 255)
        /\ trace[1].ret = "SUCCESS" => search = args.search % 256 /\ distance = args.distance % 256
        /\ (trace[1].ret = "SUCCESS" /\ args.search <= 254) => search = args.search
        /\ (trace[1].ret = "SUCCESS" /\ args.distance <= 254) => distance = args.distance
        /\ \A k \in 1 .. Len(trace) :
              trace[k].step = "dilate" => search = args.search % 256 /\ distance = args.distance % 256

\* --bit 261 --distance 257 reached dilate_pixel_qa as bit 5 and distance 1.
C30_Witness ==
    /\ tool = "dilate_pixel_qa"
    /\ args.search = 261 /\ args.distance = 257
    /\ \E k \in 1 .. Len(trace) : trace[k].step = "dilate"
    /\ search = 5 /\ distance = 1

(***************************************************************************)
(* Claims on the loops of the engines, under SpecLoops and SpecLoopsFair.  *)
(***************************************************************************)
\* The call of the engine is over: it returned, or it read outside the
\* buffer.
LoopsEnded == pc = "return" \/ pc = "undefined"

\* C23: both dilation engines terminate for every nrows, ncols >= 0 and
\* every radius d >= 0: each of the four nested loops makes progress and
\* the call completes after finitely many steps, also when the window
\* extends far outside the raster.
C23_Terminates == <>LoopsEnded

\* The part of C23 that holds: the call ends when row + d + 1 and
\* col + d + 1 are representable for every pixel.
C23_TerminatesBelowIntMax ==
    (nlines + distance <= INT_MAX /\ nsamps + distance <= INT_MAX) ~> LoopsEnded

\* An index computed in int arithmetic equals its mathematical value.
IndicesExact ==
    /\ (pc \in {"window_row", "window_col", "store"}) =>
          scratch.output_index = scratch.row * nsamps + scratch.col
    /\ (pc = "window_col") =>
          scratch.window_row_index = scratch.window_row * nsamps

\* C24: for every nrows and ncols, those with nrows*ncols > INT_MAX
\* included, each pixel index computed as row*ncols + col (and
\* window_row*ncols + window_col) in the signed int arithmetic of the code
\* equals the mathematical value and lies in [0, nrows*ncols): no index
\* wraps around and no cell outside the raster is read.
C24_IndicesInRange == pc # "undefined" /\ IndicesExact

\* The part of C24 that holds: the indices are exact and inside the raster
\* when nrows*ncols - 1 is representable.
C24_IndicesInRangeSmall == (nlines * nsamps - 1 <= INT_MAX) => C24_IndicesInRange

(***************************************************************************)
(* Claims on the pipeline, under SpecPipeline.                             *)
(***************************************************************************)
\* The pipeline ran: the band of the generator was dilated.
PipelineDone == tool = "dilate_pixel_qa" /\ phase = "dilated" /\ results # <<>>

\* C27: in the raster produced by generate_pixel_qa and then by
\* dilate_pixel_qa on the cloud bit, with any radius, a pixel with the
\* cloud bit has neither the clear bit nor the cloud shadow bit, and every
\* fill pixel has the value 1 exactly.
C27_PipelineInvariant ==
    PipelineDone =>
        \A i \in Pixels :
            /\ BitOf(ddata[i], L2QA_CLOUD) =>
                  ~BitOf(ddata[i], L2QA_CLEAR) /\ ~BitOf(ddata[i], L2QA_CLD_SHADOW)
            /\ (L1Fill(idata[i]) \/ BitOf(ddata[i], L2QA_FILL)) => ddata[i] = 1

\* A scene of a fill pixel with the Level-1 cloud bit, a cloud with a high
\* cloud shadow confidence and a clear pixel, dilated by 1: the fill pixel
\* is 1, the cloud lost its shadow bit and the clear pixel became cloud.
C27_Witness ==
    /\ PipelineDone
    /\ distance = 1
    /\ \E i, j, k \in Pixels :
          /\ idata[i] = 17 /\ ddata[i] = 1
          /\ idata[j] = 400 /\ BitOf(results[j], L2QA_CLD_SHADOW)
          /\ BitOf(ddata[j], L2QA_CLOUD) /\ ~BitOf(ddata[j], L2QA_CLD_SHADOW)
          /\ idata[k] = 0 /\ results[k] = 2 /\ ddata[k] = 32

(***************************************************************************)
(* Claims on the composed runs, under SpecCompose.                         *)
(***************************************************************************)
\* The three runs were made.
ComposeDone == results.two_step # <<>> /\ results.one_step # <<>>
\* The raster has a fill pixel.
HasFill == \E i \in Pixels : idata[i] = CLASS_L2QA_FILL

\* C28: on a raster with no fill pixel the dilation by d1 followed by the
\* dilation by d2 equals the dilation by d1 + d2 at every pixel; with fill
\* pixels the pixels the two steps set to the search value are among those
\* the one step sets, and the other pixels keep their value in both.
C28_AdditiveComposition ==
    ComposeDone =>
        /\ ~HasFill => results.two_step = results.one_step
        /\ \A i \in Pixels :
              /\ results.two_step[i] = search => results.one_step[i] = search
              /\ results.two_step[i] # search => results.two_step[i] = idata[i]
              /\ results.one_step[i] # search => results.one_step[i] = idata[i]

\* Radii 1 and 1 on a raster with no fill pixel: a clear pixel at distance 2
\* from the only cloud is cloud after the two steps and after the one step,
\* and was still clear after the first step.
C28_Witness ==
    /\ ComposeDone
    /\ ~HasFill
    /\ args = [d1 |-> 1, d2 |-> 1]
    /\ \E i \in Pixels :
          /\ idata[i] = CLASS_L2QA_CLEAR
          /\ results.first[i] = CLASS_L2QA_CLEAR
          /\ results.two_step[i] = search
          /\ results.one_step[i] = search

\* With a fill pixel between a cloud and a clear pixel the two steps set
\* fewer pixels than the one step.
C28_StrictWithFill ==
    /\ ComposeDone
    /\ HasFill
    /\ \E i \in Pixels : results.two_step[i] # search /\ results.one_step[i] = search
====
